---- MODULE Spec2Model ----
(***************************************************************************)
(* A model of the PRUDP server dispatcher of nex-go (prudp_server.go):     *)
(* the peer registry, the handshake handlers, acknowledgement, reliable    *)
(* delivery with fragment reassembly and the send path.                    *)
(*                                                                         *)
(* Every handler is one action.  The effects a handler has on the outside  *)
(* world (datagrams written to the socket, events emitted, registry and    *)
(* scheduler operations) are appended, in program order, to the variable   *)
(* oplog, which holds the effects of the handler that ran last.            *)
(***************************************************************************)
EXTENDS Integers, Sequences, FiniteSets, TLC

----------------------------------------------------------------------------
(* Bounds of the model                                                     *)

\* Largest sequence id the modelled sender uses on a substream.
MaxSeq == 2
\* Size of the Kerberos session key (PRUDPServer.kerberosKeySize, settable).
KerberosKeySize == 2
\* Largest outgoing sequence id a server-side send starts from.
MaxOutgoing == 1
\* Datagrams the workers read from the socket in a run
MaxDatagrams == 2
\* PRUDPServer.FragmentSize (settable), in bytes.
FragmentSize == 2
\* PRUDPServer.pingTimeout, in ticks of the clock
PingTimeout == 2
\* Handlers the layer above registers for events in a run
MaxHandlers == 2

\* Goroutines of handlers alive before the next datagram is taken
MaxTasks == 2

\* Bytes of a stream after its length field
MaxBody == 8

----------------------------------------------------------------------------
(* Bytes and integers                                                      *)

Pow2(n) == 2 ^ n

U8(n) == n % 256

U16(n) == n % 65536

\* A uint32 or uint64 is kept as its little-endian bytes (a word).
Word32(n) == <<n % 256, (n \div 256) % 256, (n \div 65536) % 256, n \div 16777216>>

\* bytes + carry, wrapping at the width of bytes
RECURSIVE AddCarry(_, _)
AddCarry(bytes, carry) ==
    IF bytes = <<>> THEN <<>>
    ELSE <<(Head(bytes) + carry) % 256>>
         \o AddCarry(Tail(bytes), (Head(bytes) + carry) \div 256)

\* word + 1 in the width of the word
WordPlusOne(word) == AddCarry(word, 1)

\* Whether a uint32 exceeds n, a number below 65536
WordExceeds(word, n) == word[3] # 0 \/ word[4] # 0 \/ word[1] + 256 * word[2] > n

\* A uint32 below 65536 as a number
WordValue(word) == word[1] + 256 * word[2]

RECURSIVE BitXor(_, _, _)
BitXor(a, b, bits) ==
    IF bits = 0 THEN 0
    ELSE ((a + b) % 2) + 2 * BitXor(a \div 2, b \div 2, bits - 1)

XorByte(a, b) == BitXor(a, b, 8)

\* n as `size` little-endian bytes
RECURSIVE LEBytes(_, _)
LEBytes(n, size) ==
    IF size = 0 THEN <<>> ELSE <<n % 256>> \o LEBytes(n \div 256, size - 1)

\* little-endian bytes as a number
RECURSIVE LEValue(_)
LEValue(bytes) ==
    IF bytes = <<>> THEN 0 ELSE Head(bytes) + 256 * LEValue(Tail(bytes))

RECURSIVE SumSeq(_)
SumSeq(s) == IF s = <<>> THEN 0 ELSE Head(s) + SumSeq(Tail(s))

\* The sum of i * s[i] for i in lo..hi, modulo a prime
RECURSIVE WeightedSumOver(_, _, _)
WeightedSumOver(s, lo, hi) ==
    IF lo > hi THEN 0
    ELSE IF lo = hi THEN (lo * s[lo]) % 65521
    ELSE LET mid == (lo + hi) \div 2 IN
         (WeightedSumOver(s, lo, mid) + WeightedSumOver(s, mid + 1, hi)) % 65521

WeightedSum(s) == WeightedSumOver(s, 1, Len(s))

Zeros(n) == [i \in 1..n |-> 0]

----------------------------------------------------------------------------
(* StreamIn: a byte buffer with a read offset                              *)

NewStreamIn(data) == [data |-> data, offset |-> 0]

Remaining(stream) == Len(stream.data) - stream.offset

\* crunch ReadBytesNext: the next n bytes, advancing the offset
ReadBytesNext(stream, n) ==
    [value  |-> SubSeq(stream.data, stream.offset + 1, stream.offset + n),
     stream |-> [stream EXCEPT !.offset = @ + n]]

ReadUInt8(stream) ==
    IF Remaining(stream) < 1
    THEN [err |-> TRUE, value |-> 0, stream |-> stream]
    ELSE [err |-> FALSE, value |-> stream.data[stream.offset + 1],
          stream |-> [stream EXCEPT !.offset = @ + 1]]

ReadUInt16LE(stream) ==
    IF Remaining(stream) < 2
    THEN [err |-> TRUE, value |-> 0, stream |-> stream]
    ELSE [err |-> FALSE, value |-> LEValue(ReadBytesNext(stream, 2).value),
          stream |-> [stream EXCEPT !.offset = @ + 2]]

ReadUInt32LE(stream) ==
    IF Remaining(stream) < 4
    THEN [err |-> TRUE, value |-> Word32(0), stream |-> stream]
    ELSE [err |-> FALSE, value |-> ReadBytesNext(stream, 4).value,
          stream |-> [stream EXCEPT !.offset = @ + 4]]

ReadUInt64LE(stream) ==
    IF Remaining(stream) < 8
    THEN [err |-> TRUE, value |-> Zeros(8), stream |-> stream]
    ELSE [err |-> FALSE, value |-> ReadBytesNext(stream, 8).value,
          stream |-> [stream EXCEPT !.offset = @ + 8]]

\* ReadBuffer after its length was read
ReadBufferData(length) ==
    IF length.err \/ WordExceeds(length.value, Remaining(length.stream))
    THEN [err |-> TRUE, value |-> <<>>, stream |-> length.stream]
    ELSE [err    |-> FALSE,
          value  |-> ReadBytesNext(length.stream, WordValue(length.value)).value,
          stream |-> [length.stream EXCEPT !.offset = @ + WordValue(length.value)]]

\* a nex Buffer: uint32 LE length, then the data
ReadBuffer(stream) == ReadBufferData(ReadUInt32LE(stream))

\* StreamOut.WriteUInt32LE
WriteUInt32LE(bytes, word) == bytes \o word

\* StreamOut.WriteBuffer, the writer's side of ReadBuffer
WriteBuffer(bytes, data) == WriteUInt32LE(bytes, Word32(Len(data))) \o data

\* ByteStreamOut.Write: the data after the bytes written so far
Write(bytes, data) == bytes \o data

\* ByteStreamOut.WritePrimitiveUInt16LE
WritePrimitiveUInt16LE(bytes, u16) == bytes \o LEBytes(u16, 2)

\* Readable.ReadPrimitiveUInt16LE: as StreamIn.ReadUInt16LE
ReadPrimitiveUInt16LE(readable) == ReadUInt16LE(readable)

\* Readable.Read: the next length bytes, an error when fewer are left
Read(readable, length) ==
    IF Remaining(readable) < length
    THEN [err |-> TRUE, value |-> <<>>, stream |-> readable]
    ELSE [err    |-> FALSE,
          value  |-> ReadBytesNext(readable, length).value,
          stream |-> ReadBytesNext(readable, length).stream]

\* QBuffer.WriteTo with a length field of one byte
WriteToByteLength(qb, writable) ==
    LET length  == Len(qb)
        written == writable \o <<length % 256>>
    IN  IF length > 0 THEN Write(written, qb) ELSE written

\* QBuffer.WriteTo: uint16(length), then the bytes when there are any
WriteTo(qb, writable) ==
    LET length  == Len(qb)
        written == WritePrimitiveUInt16LE(writable, U16(length))
    IN  IF length > 0 THEN Write(written, qb) ELSE written

\* QBuffer.ExtractFrom: the length, then that many bytes; qb is left as it
\* was when either read fails
ExtractFrom(qb, readable) ==
    LET length == ReadPrimitiveUInt16LE(readable)
        data   == Read(length.stream, length.value)
    IN  IF length.err
        THEN [err |-> TRUE, qb |-> qb, stream |-> length.stream]
        ELSE IF data.err
             THEN [err |-> TRUE, qb |-> qb, stream |-> data.stream]
             ELSE [err |-> FALSE, qb |-> data.value, stream |-> data.stream]

\* QBuffer.Equals: bytes.Equal
Equals(qb, o) == qb = o

\* The reads of one value of a fixed size
PrimitiveReads ==
    {"ReadUInt8", "ReadInt8", "ReadBool",
     "ReadUInt16LE", "ReadUInt16BE", "ReadInt16LE", "ReadInt16BE",
     "ReadUInt32LE", "ReadUInt32BE", "ReadInt32LE", "ReadInt32BE",
     "ReadUInt64LE", "ReadUInt64BE", "ReadInt64LE", "ReadInt64BE",
     "ReadFloat32LE", "ReadFloat32BE", "ReadFloat64LE", "ReadFloat64BE"}

\* The bytes the read asks of Remaining before it reads
RequiredStrict(read) ==
    CASE read \in {"ReadUInt16LE", "ReadInt16LE", "ReadInt16BE"} -> 2
      [] read = "ReadUInt16BE" -> 4
      [] read \in {"ReadUInt8", "ReadInt8", "ReadBool"} -> 1
      [] read \in {"ReadUInt32LE", "ReadUInt32BE", "ReadInt32LE", "ReadInt32BE",
                   "ReadFloat32LE", "ReadFloat32BE"} -> 4
      [] OTHER -> 8

Required(read) ==
    CASE read \in {"ReadUInt8", "ReadInt8", "ReadBool"} -> 1
      [] read \in {"ReadUInt16LE", "ReadUInt16BE", "ReadInt16LE", "ReadInt16BE"} -> 2
      [] read \in {"ReadUInt32LE", "ReadUInt32BE", "ReadInt32LE", "ReadInt32BE",
                   "ReadFloat32LE", "ReadFloat32BE"} -> 4
      [] OTHER -> 8

\* The bytes the crunch call of the read takes: ReadByteNext one,
\* ReadU16LENext(1) and ReadU16BENext(1) two, the 32-bit calls four and the
\* 64-bit calls eight
Taken(read) ==
    CASE read \in {"ReadUInt8", "ReadInt8", "ReadBool"} -> 1
      [] read \in {"ReadUInt16LE", "ReadUInt16BE", "ReadInt16LE", "ReadInt16BE"} -> 2
      [] read \in {"ReadUInt32LE", "ReadUInt32BE", "ReadInt32LE", "ReadInt32BE",
                   "ReadFloat32LE", "ReadFloat32BE"} -> 4
      [] OTHER -> 8

\* A fixed-size read: the error when too little remains, else the bytes of
\* the value, the offset advanced by the crunch call
ReadPrimitive(stream, read) ==
    IF Remaining(stream) < Required(read)
    THEN [err |-> TRUE, value |-> <<>>, stream |-> stream]
    ELSE [err    |-> FALSE,
          value  |-> ReadBytesNext(stream, Taken(read)).value,
          stream |-> ReadBytesNext(stream, Taken(read)).stream]

\* ReadQBuffer and ReadString after a uint16 length was read
ReadQBufferData(length) ==
    IF length.err \/ Remaining(length.stream) < length.value
    THEN [err |-> TRUE, value |-> <<>>, stream |-> length.stream]
    ELSE [err    |-> FALSE,
          value  |-> ReadBytesNext(length.stream, length.value).value,
          stream |-> ReadBytesNext(length.stream, length.value).stream]

\* a nex qBuffer: uint16 LE length, then the data
ReadQBuffer(stream) == ReadQBufferData(ReadUInt16LE(stream))

\* strings.TrimRight(str, "\x00")
RECURSIVE TrimRight(_)
TrimRight(bytes) ==
    IF bytes # <<>> /\ bytes[Len(bytes)] = 0
    THEN TrimRight(SubSeq(bytes, 1, Len(bytes) - 1))
    ELSE bytes

Trimmed(read) == [read EXCEPT !.value = TrimRight(@)]

\* a nex string: a length of the server's string length size, then the bytes,
\* returned without the NULs at their end
ReadString(stream, stringLengthSize) ==
    IF stringLengthSize = 4
    THEN Trimmed(ReadBufferData(ReadUInt32LE(stream)))
    ELSE Trimmed(ReadQBufferData(ReadUInt16LE(stream)))

----------------------------------------------------------------------------
(* Stream cipher and Kerberos primitives                                   *)

\* The keystream byte at position pos of the RC4 stream keyed with key; an
\* empty key leaves the data unchanged.
KeystreamByte(key, pos) ==
    IF key = <<>> THEN 0
    ELSE (key[(pos % Len(key)) + 1] + 31 * pos + Len(key)) % 256

\* RC4 XORKeyStream of data, starting at keystream position pos
RC4(key, pos, data) ==
    [i \in 1..Len(data) |-> XorByte(data[i], KeystreamByte(key, pos + i - 1))]

\* A cipher instance: its key and how many keystream bytes it has produced.
NewCipher(key) == [key |-> key, pos |-> 0]

\* HMAC-MD5 of data under key
HMAC(key, data) ==
    LET k == WeightedSum(key)
        d == WeightedSum(data)
    IN  [i \in 1..16 |-> (k * (i + 2) + d * (2 * i + 1) + Len(data) + 7 * i) % 256]

DeriveKerberosKey(pid, password) ==
    [i \in 1..KerberosKeySize |-> (SumSeq(password) + pid * i + i * i) % 256]

\* KerberosEncryption.Encrypt: RC4, then the MAC appended
KerberosEncrypt(key, data) == RC4(key, 0, data) \o HMAC(key, data)

\* KerberosEncryption.Decrypt: fails when the trailing MAC does not match
KerberosDecrypt(key, buffer) ==
    IF Len(buffer) < 16
    THEN [err |-> TRUE, value |-> <<>>]
    ELSE LET data == RC4(key, 0, SubSeq(buffer, 1, Len(buffer) - 16))
             mac  == SubSeq(buffer, Len(buffer) - 15, Len(buffer))
         IN  IF mac = HMAC(key, data)
             THEN [err |-> FALSE, value |-> data]
             ELSE [err |-> TRUE, value |-> <<>>]

\* DateTime: second, minute, hour, day, month and year packed into a uint64
\* (year from bit 26 on), as the uint64's little-endian bytes
NewDateTime(year, month, day, hour, minute, second) ==
    LET low == second + Pow2(6) * minute + Pow2(12) * hour + Pow2(17) * day
               + Pow2(22) * month
    IN  <<low % 256, (low \div Pow2(8)) % 256, (low \div Pow2(16)) % 256,
          (low \div Pow2(24)) + 4 * (year % 64), (year \div 64) % 256,
          year \div Pow2(14), 0, 0>>

\* DateTime.Standard, as seconds on the server's clock counted from the year
\* 2000, months taken as 31 days
Standard(value) ==
    LET low    == value[1] + Pow2(8) * value[2] + Pow2(16) * value[3]
                  + Pow2(24) * (value[4] % 4)
        second == low % 64
        minute == (low \div Pow2(6)) % 64
        hour   == (low \div Pow2(12)) % 32
        day    == (low \div Pow2(17)) % 32
        month  == (low \div Pow2(22)) % 16
        year   == (value[4] \div 4) + 64 * value[5] + Pow2(14) * value[6]
    IN  (((((year - 2000) * 12 + month) * 31 + day) * 24 + hour) * 60 + minute) * 60
        + second

TicketFailure ==
    [err |-> TRUE, Issued |-> Zeros(8), SourcePID |-> Word32(0), SessionKey |-> <<>>]

\* The fields of the decrypted ticket after its timestamp and user PID
TicketSessionKey(timestamp, userPID) ==
    IF userPID.err \/ Remaining(userPID.stream) < KerberosKeySize
    THEN TicketFailure
    ELSE [err |-> FALSE, Issued |-> timestamp.value, SourcePID |-> userPID.value,
          SessionKey |-> ReadBytesNext(userPID.stream, KerberosKeySize).value]

TicketSourcePID(timestamp) ==
    IF timestamp.err THEN TicketFailure
    ELSE TicketSessionKey(timestamp, ReadUInt32LE(timestamp.stream))

TicketIssued(decrypted) ==
    IF decrypted.err THEN TicketFailure
    ELSE TicketSourcePID(ReadUInt64LE(NewStreamIn(decrypted.value)))

\* KerberosTicketInternalData.Decrypt: issued, source PID, session key
TicketDecrypt(ticketData, key) == TicketIssued(KerberosDecrypt(key, ticketData))

\* The server's Kerberos password (PRUDPServer.kerberosPassword)
kerberosPassword == <<112, 119>>

\* What readKerberosTicket returns with an error: nil, 0, 0 and the error
KerberosFailure(error) ==
    [err |-> TRUE, error |-> error, sessionKey |-> <<>>, pid |-> Word32(0),
     checkValue |-> Word32(0)]

\* readKerberosTicket, the last read: the response check value
readResponseCheck(sessionKey, userPID, responseCheck) ==
    IF responseCheck.err THEN KerberosFailure("ReadUInt32LE")
    ELSE [err |-> FALSE, error |-> "", sessionKey |-> sessionKey, pid |-> userPID,
          checkValue |-> responseCheck.value]

\* readKerberosTicket: the CID of the secure server's station URL is read
\* and dropped
readCID(sessionKey, userPID, cid) ==
    IF cid.err THEN KerberosFailure("ReadUInt32LE")
    ELSE readResponseCheck(sessionKey, userPID, ReadUInt32LE(cid.stream))

readUserPID(sessionKey, userPID) ==
    IF userPID.err THEN KerberosFailure("ReadUInt32LE")
    ELSE readCID(sessionKey, userPID.value, ReadUInt32LE(userPID.stream))

\* readKerberosTicket: the request data is decrypted with the session key
readRequestData(sessionKey, decryptedRequestData) ==
    IF decryptedRequestData.err THEN KerberosFailure("KerberosEncryption.Decrypt")
    ELSE readUserPID(sessionKey,
                     ReadUInt32LE(NewStreamIn(decryptedRequestData.value)))

\* A readKerberosTicket that lets a ticket expire at its time limit
readTicketAtLimit(ticket, requestData, serverTime) ==
    IF ticket.err THEN KerberosFailure("KerberosTicketInternalData.Decrypt")
    ELSE IF serverTime >= Standard(ticket.Issued) + 120
    THEN KerberosFailure("Kerberos ticket expired")
    ELSE readRequestData(ticket.SessionKey,
                         KerberosDecrypt(ticket.SessionKey, requestData))

\* readKerberosTicket: a ticket issued more than two minutes before the
\* server's time has expired
readTicket(ticket, requestData, serverTime) ==
    IF ticket.err THEN KerberosFailure("KerberosTicketInternalData.Decrypt")
    ELSE IF serverTime > Standard(ticket.Issued) + 120
    THEN KerberosFailure("Kerberos ticket expired")
    ELSE readRequestData(ticket.SessionKey,
                         KerberosDecrypt(ticket.SessionKey, requestData))

readRequestBuffer(ticketData, requestData, serverTime) ==
    IF requestData.err THEN KerberosFailure("ReadBuffer")
    ELSE readTicket(TicketDecrypt(ticketData,
                                  DeriveKerberosKey(2, kerberosPassword)),
                    requestData.value, serverTime)

readTicketBuffer(ticketData, serverTime) ==
    IF ticketData.err THEN KerberosFailure("ReadBuffer")
    ELSE readRequestBuffer(ticketData.value, ReadBuffer(ticketData.stream),
                           serverTime)

\* PRUDPServer.readKerberosTicket; serverTime is time.Now().UTC() in seconds
readKerberosTicket(payload, serverTime) ==
    readTicketBuffer(ReadBuffer(NewStreamIn(payload)), serverTime)

----------------------------------------------------------------------------
(* Maps (MutexMap): functions whose domain is the set of keys present      *)

EmptyMap == [k \in {} |-> 0]

MapSet(m, key, value) ==
    [k \in DOMAIN m \cup {key} |-> IF k = key THEN value ELSE m[k]]

MapDelete(m, key) == [k \in DOMAIN m \ {key} |-> m[k]]

MapHas(m, key) == key \in DOMAIN m

----------------------------------------------------------------------------
(* Packets                                                                 *)

PacketTypes == {"SYN", "CONNECT", "DATA", "DISCONNECT", "PING"}

Flags == {"ACK", "RELIABLE", "NEEDS_ACK", "HAS_SIZE", "MULTI_ACK"}

TypeCode(type) ==
    CASE type = "SYN" -> 0
      [] type = "CONNECT" -> 1
      [] type = "DATA" -> 2
      [] type = "DISCONNECT" -> 3
      [] type = "PING" -> 4

FlagBit(flag) ==
    CASE flag = "ACK" -> 1
      [] flag = "RELIABLE" -> 2
      [] flag = "NEEDS_ACK" -> 4
      [] flag = "HAS_SIZE" -> 8
      [] flag = "MULTI_ACK" -> 512

RECURSIVE FlagBits(_)
FlagBits(flags) ==
    IF flags = {} THEN 0
    ELSE LET f == CHOOSE x \in flags : TRUE IN FlagBit(f) + FlagBits(flags \ {f})

\* NewPRUDPPacketV0 / NewPRUDPPacketV1 with no stream to read from: a blank
\* packet of the sender
NewPRUDPPacket(version, sender) ==
    [version |-> version, sender |-> sender, type |-> "SYN", flags |-> {},
     sourceStreamType |-> 0, sourcePort |-> 0,
     destinationStreamType |-> 0, destinationPort |-> 0,
     sessionID |-> 0, substreamID |-> 0, sequenceID |-> 0, fragmentID |-> 0,
     connectionSignature |-> <<>>, payload |-> <<>>, signature |-> <<>>,
     minorVersion |-> 0, supportedFunctions |-> 0, maximumSubstreamID |-> 0,
     message |-> <<>>]

HasFlag(packet, flag) == flag \in packet.flags

\* Length of the signatures of a protocol version
SignatureLength(version) == IF version = 0 THEN 4 ELSE 16

\* A remote address (net.UDPAddr): the four bytes of the IP, then the port
AddressIP(address) == SubSeq(address, 1, 4)

AddressPort(address) == address[5]

\* calculateConnectionSignature: a value fixed by the remote address
calculateConnectionSignature(version, address) ==
    [i \in 1..SignatureLength(version) |->
        ((SumSeq(AddressIP(address)) + AddressPort(address) + 13 * i) % 255) + 1]

\* The server's access key (PRUDPServer.accessKey)
accessKey == <<114, 105>>

\* The packet fields a signature covers
SignedFields(packet) ==
    <<TypeCode(packet.type), FlagBits(packet.flags) % 256,
      FlagBits(packet.flags) \div 256, packet.sessionID, packet.substreamID,
      packet.sequenceID % 256, packet.sequenceID \div 256, packet.fragmentID>>
    \o packet.connectionSignature \o packet.payload

\* calculateSignature(sessionKey, connectionSignature)
calculateSignature(packet, sessionKey, connectionSignature) ==
    SubSeq(HMAC(IF packet.version = 0 THEN accessKey ELSE sessionKey,
                SignedFields(packet) \o connectionSignature),
           1, SignatureLength(packet.version))

\* The options block of a v1 packet
OptionsV1(packet) ==
    (IF packet.type \in {"SYN", "CONNECT"}
     THEN <<0, 4>> \o LEBytes(packet.minorVersion + 256 * packet.supportedFunctions, 4)
          \o <<1, Len(packet.connectionSignature)>> \o packet.connectionSignature
     ELSE <<>>)
    \o (IF packet.type = "CONNECT" THEN <<4, 1, packet.maximumSubstreamID>> ELSE <<>>)
    \o (IF packet.type = "DATA" THEN <<2, 1, packet.fragmentID>> ELSE <<>>)

\* Bytes(): the datagram of a packet
Bytes(packet) ==
    LET endpoints == <<16 * packet.sourceStreamType + packet.sourcePort,
                       16 * packet.destinationStreamType + packet.destinationPort>>
        typeFlags == LEBytes(TypeCode(packet.type) + 16 * FlagBits(packet.flags), 2)
    IN
    IF packet.version = 0
    THEN endpoints \o typeFlags \o <<packet.sessionID>> \o packet.signature
         \o LEBytes(packet.sequenceID, 2)
         \o (IF packet.type \in {"SYN", "CONNECT"}
             THEN packet.connectionSignature ELSE <<>>)
         \o (IF packet.type = "DATA" THEN <<packet.fragmentID>> ELSE <<>>)
         \o (IF HasFlag(packet, "HAS_SIZE")
             THEN LEBytes(Len(packet.payload), 2) ELSE <<>>)
         \o packet.payload
         \o <<(SumSeq(accessKey) + SumSeq(packet.payload) + packet.sequenceID) % 256>>
    ELSE <<234, 208, 1, Len(OptionsV1(packet))>>
         \o LEBytes(Len(packet.payload), 2) \o endpoints \o typeFlags
         \o <<packet.sessionID, packet.substreamID>>
         \o LEBytes(packet.sequenceID, 2)
         \o packet.signature \o OptionsV1(packet) \o packet.payload

----------------------------------------------------------------------------
(* Reliable substreams and peers                                           *)

\* The first sequence id of a substream, in both directions
FirstSequenceID == 1

\* NewReliablePacketSubstreamManager.  delivered is history: the messages
\* surfaced on this substream, in order.
NewReliablePacketSubstreamManager(sessionKey) ==
    [incomingSequenceID |-> FirstSequenceID,
     outgoingSequenceID |-> FirstSequenceID,
     packets            |-> EmptyMap,
     fragmentedPayload  |-> <<>>,
     cipher             |-> NewCipher(sessionKey),
     decipher           |-> NewCipher(sessionKey),
     ResendScheduler    |-> EmptyMap,
     delivered          |-> <<>>]

\* The walk of Update: pull the packets out of the buffer in order, from the
\* expected sequence id on
RECURSIVE UpdateWalk(_, _)
UpdateWalk(substream, ready) ==
    IF MapHas(substream.packets, substream.incomingSequenceID)
    THEN UpdateWalk(
             [substream EXCEPT
                 !.packets = MapDelete(@, substream.incomingSequenceID),
                 !.incomingSequenceID = U16(@ + 1)],
             Append(ready, substream.packets[substream.incomingSequenceID]))
    ELSE [substream |-> substream, ready |-> ready]

\* ReliablePacketSubstreamManager.Update: enqueue the packet under its sequence
\* id, then return the packets that are ready, in order
Update(substream, packet) ==
    UpdateWalk([substream EXCEPT !.packets = MapSet(@, packet.sequenceID, packet)],
               <<>>)

\* ReliablePacketSubstreamManager.Decrypt, used by decryptPayload
Decrypt(substream, data) ==
    [value     |-> RC4(substream.decipher.key, substream.decipher.pos, data),
     substream |-> [substream EXCEPT !.decipher.pos = @ + Len(data)]]

\* ReliablePacketSubstreamManager.Encrypt
Encrypt(substream, data) ==
    [value     |-> RC4(substream.cipher.key, substream.cipher.pos, data),
     substream |-> [substream EXCEPT !.cipher.pos = @ + Len(data)]]

\* AddFragment: append to the accumulator, which is returned
AddFragment(substream, fragment) ==
    [substream EXCEPT !.fragmentedPayload = @ \o fragment]

ResetFragmentedPayload(substream) ==
    [substream EXCEPT !.fragmentedPayload = <<>>]

\* NewPRUDPClient
NewPRUDPClient(address) ==
    [address                   |-> address,
     pid                       |-> Word32(0),
     clientConnectionSignature |-> <<>>,
     serverConnectionSignature |-> <<>>,
     sessionKey                |-> <<>>,
     sourceStreamType          |-> 0,
     sourcePort                |-> 0,
     destinationStreamType     |-> 0,
     destinationPort           |-> 0,
     minorVersion              |-> 0,
     supportedFunctions        |-> 0,
     reliableSubstreams        |-> <<>>,
     outgoingUnreliableSequenceID |-> FirstSequenceID,
     outgoingPingSequenceID    |-> FirstSequenceID,
     heartbeat                 |-> "running"]

\* PRUDPClient.reset: signatures, key, substreams and counters are cleared
reset(client) ==
    [client EXCEPT
        !.clientConnectionSignature = <<>>,
        !.serverConnectionSignature = <<>>,
        !.sessionKey = <<>>,
        !.reliableSubstreams = <<>>,
        !.outgoingUnreliableSequenceID = FirstSequenceID,
        !.outgoingPingSequenceID = FirstSequenceID]

\* PRUDPClient.cleanup: timers stopped, substreams released
cleanup(client) ==
    [client EXCEPT !.reliableSubstreams = <<>>, !.heartbeat = "stopped"]

\* PRUDPClient.createReliableSubstreams: substreams 0..maximumSubstreamID
createReliableSubstreams(client, maximumSubstreamID) ==
    [client EXCEPT !.reliableSubstreams =
        [i \in 1..(maximumSubstreamID + 1) |->
            NewReliablePacketSubstreamManager(client.sessionKey)]]

\* PRUDPClient.setSessionKey: the key, and the keystreams of every substream
setSessionKey(client, sessionKey) ==
    [client EXCEPT
        !.sessionKey = sessionKey,
        !.reliableSubstreams =
            [i \in 1..Len(@) |->
                [@[i] EXCEPT !.cipher = NewCipher(sessionKey),
                             !.decipher = NewCipher(sessionKey)]]]

\* Whether PRUDPClient.reliableSubstream(substreamID) finds a substream
HasSubstream(client, substreamID) ==
    substreamID + 1 \in 1..Len(client.reliableSubstreams)

\* PRUDPClient.reliableSubstream
reliableSubstream(client, substreamID) ==
    client.reliableSubstreams[substreamID + 1]

----------------------------------------------------------------------------
(* The server                                                              *)

VARIABLES
    IsSecureServer,  \* PRUDPServer.IsSecureServer, fixed at construction
    senderFrags,     \* the fragment id the peers' sender gives each sequence id
    clients,         \* PRUDPServer.clients: remote address -> PRUDPClient
    panicked,        \* a worker hit a runtime panic: the process is gone
    hung,            \* a worker is stuck in a loop that never ends
    last,            \* the operation that ran last and its input
    oplog,           \* the effects of that operation, in program order
    peers,           \* the PRUDPClient objects created so far, by identity
    registry,        \* PRUDPServer.clients of the workers: address -> identity
    workers,         \* the listenDatagram goroutines: where each one is
    senders,         \* the callers of Send: the variables of its loop
    idle,            \* address -> ticks since the peer's heartbeat timer was set
    eventHandlers,   \* PRUDPServer.eventHandlers: the handlers, in order
    tasks,           \* the goroutines emit started that have not returned
    reader           \* a StreamIn, the read made of it last and what it gave

vars == <<IsSecureServer, senderFrags, clients, panicked, hung, last, oplog,
          peers, registry, workers, senders, idle, eventHandlers, tasks, reader>>

\* The state a handler works on
World == [clients |-> clients, oplog |-> <<>>, panicked |-> FALSE, hung |-> FALSE]

Effect(op, address, name, packet) ==
    [op |-> op, address |-> address, name |-> name, data |-> <<>>,
     packet |-> packet]

Log(st, effect) == [st EXCEPT !.oplog = Append(@, effect)]

Panic(st) == [st EXCEPT !.panicked = TRUE]

\* sendRaw: the packet's bytes are written to the socket
sendRaw(st, address, packet) ==
    Log(st, [Effect("sendRaw", address, "", packet) EXCEPT !.data = Bytes(packet)])

\* emit: every handler of the event is started with the packet
emit(st, name, packet) == Log(st, Effect("emit", packet.sender, name, packet))

SetSubstream(st, address, substreamID, substream) ==
    [st EXCEPT !.clients[address].reliableSubstreams[substreamID + 1] = substream]

\* A packet object in the hands of a handler, and the state around it
Sending(st, packet) == [st |-> st, packet |-> packet]

\* The sequence id sendPacket gives a packet that is no acknowledgement: the
\* next one of the substream, of the unreliable data or of the pings, or 0
NextSequenceID(sending) ==
    LET st      == sending.st
        packet  == sending.packet
        address == sending.packet.sender
        client  == sending.st.clients[sending.packet.sender]
    IN
    IF HasFlag(packet, "RELIABLE")
    THEN Sending(
             [st EXCEPT !.clients[address].reliableSubstreams[
                            packet.substreamID + 1].outgoingSequenceID = U16(@ + 1)],
             [packet EXCEPT !.sequenceID =
                 reliableSubstream(client, packet.substreamID).outgoingSequenceID])
    ELSE IF packet.type = "DATA"
    THEN Sending(
             [st EXCEPT !.clients[address].outgoingUnreliableSequenceID = U16(@ + 1)],
             [packet EXCEPT !.sequenceID = client.outgoingUnreliableSequenceID])
    ELSE IF packet.type = "PING"
    THEN Sending(
             [st EXCEPT !.clients[address].outgoingPingSequenceID = U16(@ + 1)],
             [packet EXCEPT !.sequenceID = client.outgoingPingSequenceID])
    ELSE Sending(st, [packet EXCEPT !.sequenceID = 0])

\* A sendPacket that numbers acknowledgements like any other packet
sendPacketSequenceIDOfAny(sending) == NextSequenceID(sending)

\* A sendPacket that numbers every packet 0 and advances no counter
sendPacketSequenceIDOfNone(sending) == [sending EXCEPT !.packet.sequenceID = 0]

\* sendPacket, step 1: the sequence id
sendPacketSequenceID(sending) ==
    IF ~HasFlag(sending.packet, "ACK") /\ ~HasFlag(sending.packet, "MULTI_ACK")
    THEN NextSequenceID(sending)
    ELSE sending

\* The substream and the packet after Encrypt
sendPacketEncrypted(sending, encrypted) ==
    Sending(SetSubstream(sending.st, sending.packet.sender,
                         sending.packet.substreamID, encrypted.substream),
            [sending.packet EXCEPT !.payload = encrypted.value])

\* A sendPacket that encrypts every reliable DATA packet, acknowledgements
\* too
sendPacketEncryptAcknowledgements(sending) ==
    IF /\ sending.packet.type = "DATA"
       /\ HasFlag(sending.packet, "RELIABLE")
    THEN sendPacketEncrypted(sending,
             Encrypt(reliableSubstream(sending.st.clients[sending.packet.sender],
                                       sending.packet.substreamID),
                     sending.packet.payload))
    ELSE sending

\* sendPacket, step 2: reliable DATA is encrypted with the substream's cipher
sendPacketEncrypt(sending) ==
    IF /\ sending.packet.type = "DATA"
       /\ ~HasFlag(sending.packet, "ACK")
       /\ ~HasFlag(sending.packet, "MULTI_ACK")
       /\ HasFlag(sending.packet, "RELIABLE")
    THEN sendPacketEncrypted(sending,
             Encrypt(reliableSubstream(sending.st.clients[sending.packet.sender],
                                       sending.packet.substreamID),
                     sending.packet.payload))
    ELSE sending

\* sendPacket, step 3: the signature
sendPacketSign(sending) ==
    [sending EXCEPT !.packet.signature =
        calculateSignature(sending.packet,
            sending.st.clients[sending.packet.sender].sessionKey,
            sending.st.clients[sending.packet.sender].serverConnectionSignature)]

\* A sendPacket that schedules every packet that needs an ACK
sendPacketScheduleNeedsAck(sending) ==
    IF /\ HasFlag(sending.packet, "NEEDS_ACK")
       /\ HasSubstream(sending.st.clients[sending.packet.sender],
                       sending.packet.substreamID)
    THEN [sending EXCEPT !.st.clients[sending.packet.sender].reliableSubstreams[
                             sending.packet.substreamID + 1].ResendScheduler =
             MapSet(@, sending.packet.sequenceID, sending.packet)]
    ELSE sending

\* sendPacket, step 4: reliable packets that need an ACK go to the scheduler
sendPacketSchedule(sending) ==
    IF HasFlag(sending.packet, "RELIABLE") /\ HasFlag(sending.packet, "NEEDS_ACK")
    THEN [sending EXCEPT !.st =
             Log([@ EXCEPT !.clients[sending.packet.sender].reliableSubstreams[
                               sending.packet.substreamID + 1].ResendScheduler =
                     MapSet(@, sending.packet.sequenceID, sending.packet)],
                 Effect("AddPacket", sending.packet.sender, "", sending.packet))]
    ELSE sending

\* sendPacket, step 5: the bytes go to the sender's address
sendPacketWrite(sending) ==
    [sending EXCEPT !.st = sendRaw(@, sending.packet.sender, sending.packet)]

\* A sendPacket that schedules the packet as the caller gave it
sendPacketScheduleFirst(st, packet) ==
    IF HasFlag(packet, "RELIABLE")
       /\ ~HasSubstream(st.clients[packet.sender], packet.substreamID)
    THEN Sending(Panic(st), packet)
    ELSE sendPacketWrite(sendPacketSign(sendPacketEncrypt(
             sendPacketSchedule(sendPacketSequenceID(Sending(st, packet))))))

\* A sendPacket that writes the bytes before it schedules the packet
sendPacketWriteFirst(st, packet) ==
    IF HasFlag(packet, "RELIABLE")
       /\ ~HasSubstream(st.clients[packet.sender], packet.substreamID)
    THEN Sending(Panic(st), packet)
    ELSE sendPacketSchedule(sendPacketWrite(sendPacketSign(
             sendPacketEncrypt(sendPacketSequenceID(Sending(st, packet))))))

\* sendPacket; the packet object is returned as the call leaves it.  A
\* reliable packet of a peer without the substream is a nil dereference.
sendPacket(st, packet) ==
    IF /\ HasFlag(packet, "RELIABLE")
       /\ \/ ~HasFlag(packet, "ACK") /\ ~HasFlag(packet, "MULTI_ACK")
          \/ HasFlag(packet, "NEEDS_ACK")
       /\ ~HasSubstream(st.clients[packet.sender], packet.substreamID)
    THEN Sending(Panic(st), packet)
    ELSE sendPacketWrite(sendPacketSchedule(sendPacketSign(
             sendPacketEncrypt(sendPacketSequenceID(Sending(st, packet))))))

\* The ACK acknowledgePacket builds for a received packet
AcknowledgementOf(packet) ==
    [NewPRUDPPacket(packet.version, packet.sender) EXCEPT
        !.type = packet.type,
        !.flags = {"ACK"},
        !.sourceStreamType = packet.destinationStreamType,
        !.sourcePort = packet.destinationPort,
        !.destinationStreamType = packet.sourceStreamType,
        !.destinationPort = packet.sourcePort,
        !.sequenceID = packet.sequenceID,
        !.fragmentID = packet.fragmentID,
        !.substreamID = packet.substreamID]

\* An acknowledgePacket that sends every ACK once
AcknowledgementSendsOnce(packet) == 1

\* How many times acknowledgePacket sends the ACK of a packet
AcknowledgementSends(packet) == IF packet.type = "DISCONNECT" THEN 3 ELSE 1

\* The same packet object sent a number of times
RECURSIVE sendPacketTimes(_, _)
sendPacketTimes(sending, times) ==
    IF times = 0 \/ sending.st.panicked THEN sending.st
    ELSE sendPacketTimes(sendPacket(sending.st, sending.packet), times - 1)

acknowledgePacket(st, packet) ==
    sendPacketTimes(Sending(st, AcknowledgementOf(packet)),
                    AcknowledgementSends(packet))

\* setSignature(calculateSignature(sessionKey, connectionSignature))
setSignature(packet, sessionKey, connectionSignature) ==
    [packet EXCEPT !.signature =
        calculateSignature(packet, sessionKey, connectionSignature)]

\* The SYN-ACK handleSyn builds
SynAcknowledgement(packet, connectionSignature) ==
    setSignature(
        [NewPRUDPPacket(packet.version, packet.sender) EXCEPT
            !.type = "SYN",
            !.flags = {"ACK", "HAS_SIZE"},
            !.sourceStreamType = packet.destinationStreamType,
            !.sourcePort = packet.destinationPort,
            !.destinationStreamType = packet.sourceStreamType,
            !.destinationPort = packet.sourcePort,
            !.connectionSignature = connectionSignature],
        <<>>, <<>>)

\* A handleSyn that resets the peer after it stored the SYN's values
SynClientResetLast(client, packet, connectionSignature) ==
    reset([client EXCEPT
        !.clientConnectionSignature = connectionSignature,
        !.sourceStreamType = packet.sourceStreamType,
        !.sourcePort = packet.sourcePort,
        !.destinationStreamType = packet.destinationStreamType,
        !.destinationPort = packet.destinationPort])

\* What handleSyn stores in the peer
SynClient(client, packet, connectionSignature) ==
    [reset(client) EXCEPT
        !.clientConnectionSignature = connectionSignature,
        !.sourceStreamType = packet.sourceStreamType,
        !.sourcePort = packet.sourcePort,
        !.destinationStreamType = packet.destinationStreamType,
        !.destinationPort = packet.destinationPort]

\* The end of handleSyn and of handleConnect: the reply is emitted, then sent
emitAndSend(st, name, address, ack) == sendRaw(emit(st, name, ack), address, ack)

handleSyn(st, packet) ==
    emitAndSend(
        [st EXCEPT !.clients[packet.sender] =
            SynClient(@, packet,
                calculateConnectionSignature(packet.version, @.address))],
        "syn",
        st.clients[packet.sender].address,
        SynAcknowledgement(packet,
            calculateConnectionSignature(packet.version,
                                         st.clients[packet.sender].address)))

\* The CONNECT-ACK before its version fields, payload and signature are set
ConnectAcknowledgementHeader(packet, connectionSignature) ==
    [NewPRUDPPacket(packet.version, packet.sender) EXCEPT
        !.type = "CONNECT",
        !.flags = {"ACK", "HAS_SIZE"},
        !.sourceStreamType = packet.destinationStreamType,
        !.sourcePort = packet.destinationPort,
        !.destinationStreamType = packet.sourceStreamType,
        !.destinationPort = packet.sourcePort,
        !.connectionSignature = Zeros(Len(connectionSignature)),
        !.sessionID = 0,
        !.sequenceID = 1]

\* A handleConnect that leaves the version fields of its reply blank
ConnectAcknowledgementBlank(packet, connectionSignature) ==
    ConnectAcknowledgementHeader(packet, connectionSignature)

\* The CONNECT-ACK before its payload and signature are set
ConnectAcknowledgement(packet, connectionSignature) ==
    IF packet.version = 1
    THEN [ConnectAcknowledgementHeader(packet, connectionSignature) EXCEPT
             !.maximumSubstreamID = packet.maximumSubstreamID,
             !.minorVersion = packet.minorVersion,
             !.supportedFunctions = packet.supportedFunctions]
    ELSE ConnectAcknowledgementHeader(packet, connectionSignature)

\* The peer after the version-dependent part of handleConnect
ConnectClient(client, packet) ==
    IF packet.version = 1
    THEN createReliableSubstreams(
             [client EXCEPT !.serverConnectionSignature = packet.connectionSignature,
                            !.minorVersion = packet.minorVersion,
                            !.supportedFunctions = packet.supportedFunctions],
             packet.maximumSubstreamID)
    ELSE createReliableSubstreams(
             [client EXCEPT !.serverConnectionSignature = packet.connectionSignature],
             0)

\* A response that carries the check value as it came
ConnectResponseEcho(checkValue) ==
    WriteUInt32LE(WriteUInt32LE(<<>>, Word32(4)), checkValue)

\* The payload of the CONNECT-ACK of a secure server
ConnectResponse(checkValue) ==
    WriteUInt32LE(WriteUInt32LE(<<>>, Word32(4)), WordPlusOne(checkValue))

\* The peer and the payload after the secure part of handleConnect: a failed
\* readKerberosTicket is printed and its zero values are used
ConnectSecure(client, ticket) ==
    [client  |-> setSessionKey([client EXCEPT !.pid = ticket.pid], ticket.sessionKey),
     payload |-> ConnectResponse(ticket.checkValue),
     printed |-> ticket.error]

ConnectSession(client, packet, serverTime) ==
    IF IsSecureServer
    THEN ConnectSecure(client, readKerberosTicket(packet.payload, serverTime))
    ELSE [client |-> client, payload |-> <<>>, printed |-> ""]

\* fmt.Println(err) of handleConnect
Println(st, packet, error) ==
    IF error = "" THEN st
    ELSE Log(st, Effect("Println", packet.sender, error, packet))

handleConnectSession(st, packet, session) ==
    emitAndSend(
        Println([st EXCEPT !.clients[packet.sender] = session.client],
                packet, session.printed),
        "connect",
        session.client.address,
        setSignature(
            [ConnectAcknowledgement(packet,
                 calculateConnectionSignature(packet.version, session.client.address))
             EXCEPT !.payload = session.payload],
            <<>>, packet.connectionSignature))

handleConnect(st, packet, serverTime) ==
    handleConnectSession(st, packet,
        ConnectSession(ConnectClient(st.clients[packet.sender], packet),
                       packet, serverTime))

\* A handleDisconnect that emits the event before it cleans up
handleDisconnectEmitFirst(st, packet) ==
    IF st.panicked THEN st
    ELSE Log([Log([emit(st, "disconnect", packet)
                   EXCEPT !.clients[packet.sender] = cleanup(@)],
                  Effect("cleanup", packet.sender, "", packet))
              EXCEPT !.clients = MapDelete(@, packet.sender)],
             Effect("Delete", packet.sender, "", packet))

\* handleDisconnect after the acknowledgement: the peer is cleaned up and
\* taken out of the registry, then the event is emitted
handleDisconnectCleanup(st, packet) ==
    IF st.panicked THEN st
    ELSE emit(
             Log([Log([st EXCEPT !.clients[packet.sender] = cleanup(@)],
                      Effect("cleanup", packet.sender, "", packet))
                  EXCEPT !.clients = MapDelete(@, packet.sender)],
                 Effect("Delete", packet.sender, "", packet)),
             "disconnect", packet)

handleDisconnect(st, packet) ==
    handleDisconnectCleanup(
        IF HasFlag(packet, "NEEDS_ACK") THEN acknowledgePacket(st, packet) ELSE st,
        packet)

handlePing(st, packet) ==
    IF HasFlag(packet, "NEEDS_ACK") THEN acknowledgePacket(st, packet) ELSE st

handleUnreliable(st, packet) == st

\* The test handleReliable makes before it surfaces the accumulator
IsLastFragment(packet, pendingPacket) == packet.fragmentID = 0

\* handleReliable: the accumulator becomes the message of the packet, the
\* accumulator is reset and the packet is emitted
handleReliableMessage(sending, added) ==
    Sending(
        emit(SetSubstream(sending.st, sending.packet.sender,
                          sending.packet.substreamID,
                          [ResetFragmentedPayload(added) EXCEPT
                              !.delivered = Append(@, added.fragmentedPayload)]),
             "reliable-data",
             [sending.packet EXCEPT !.message = added.fragmentedPayload]),
        [sending.packet EXCEPT !.message = added.fragmentedPayload])

\* handleReliable after AddFragment left the substream as added
handleReliableFragment(sending, pendingPacket, added) ==
    IF IsLastFragment(sending.packet, pendingPacket)
    THEN handleReliableMessage(sending, added)
    ELSE [sending EXCEPT !.st = SetSubstream(@, sending.packet.sender,
                                             sending.packet.substreamID, added)]

\* AddFragment(pendingPacket.decryptPayload())
AddDecrypted(decrypted) == AddFragment(decrypted.substream, decrypted.value)

\* One iteration of the loop of handleReliable
handleReliablePending(sending, pendingPacket) ==
    IF sending.packet.type = "DATA"
    THEN handleReliableFragment(sending, pendingPacket,
             AddDecrypted(
                 Decrypt(reliableSubstream(sending.st.clients[sending.packet.sender],
                                           sending.packet.substreamID),
                         pendingPacket.payload)))
    ELSE sending

\* The loop of handleReliable over the packets Update returned
RECURSIVE handleReliableLoop(_, _)
handleReliableLoop(sending, ready) ==
    IF ready = <<>> THEN sending.st
    ELSE handleReliableLoop(handleReliablePending(sending, Head(ready)), Tail(ready))

handleReliableUpdated(st, packet, updated) ==
    handleReliableLoop(
        Sending(Log(SetSubstream(st, packet.sender, packet.substreamID,
                                 updated.substream),
                    Effect("Update", packet.sender, "", packet)),
                packet),
        updated.ready)

\* handleReliable after the acknowledgement: the substream is updated and the
\* ready packets are delivered
handleReliableDeliver(st, packet) ==
    IF st.panicked THEN st
    ELSE IF ~HasSubstream(st.clients[packet.sender], packet.substreamID)
    THEN Panic(st)
    ELSE handleReliableUpdated(st, packet,
             Update(reliableSubstream(st.clients[packet.sender], packet.substreamID),
                    packet))

\* A handleReliable that acknowledges the packet after it delivered it
handleReliableAckLast(st, packet) ==
    IF HasFlag(packet, "NEEDS_ACK")
    THEN acknowledgePacket(handleReliableDeliver(st, packet), packet)
    ELSE handleReliableDeliver(st, packet)

handleReliable(st, packet) ==
    handleReliableDeliver(
        IF HasFlag(packet, "NEEDS_ACK") THEN acknowledgePacket(st, packet) ELSE st,
        packet)

handleData(st, packet) ==
    IF HasFlag(packet, "RELIABLE")
    THEN handleReliable(st, packet)
    ELSE handleUnreliable(st, packet)

\* ResendScheduler.AcknowledgePacket for each of the ids
AcknowledgePackets(st, address, substreamID, sequenceIDs) ==
    [st EXCEPT !.clients[address].reliableSubstreams[substreamID + 1].ResendScheduler =
        [id \in DOMAIN @ \ sequenceIDs |-> @[id]]]

\* The additional ids of a new-format aggregate acknowledgement
RECURSIVE ReadAdditionalIDs(_, _, _)
ReadAdditionalIDs(additionalID, count, sequenceIDs) ==
    IF count = 0 THEN sequenceIDs
    ELSE ReadAdditionalIDs(ReadUInt16LE(additionalID.stream), count - 1,
                           Append(sequenceIDs, additionalID.value))

\* The additional ids of an old-format aggregate acknowledgement: read while
\* data remains.  A read that fails consumes nothing, so the loop never ends.
RECURSIVE ReadRemainingIDs(_, _)
ReadRemainingIDs(additionalID, sequenceIDs) ==
    IF additionalID.err
    THEN [hung |-> TRUE, sequenceIDs |-> sequenceIDs]
    ELSE IF Remaining(additionalID.stream) > 0
    THEN ReadRemainingIDs(ReadUInt16LE(additionalID.stream),
                          Append(sequenceIDs, additionalID.value))
    ELSE [hung |-> FALSE, sequenceIDs |-> Append(sequenceIDs, additionalID.value)]

Range(sequence) == {sequence[i] : i \in DOMAIN sequence}

\* An aggregate acknowledgement that leaves the base itself pending
AggregateIDsBelowBase(substream, baseSequenceID, sequenceIDs) ==
    Range(sequenceIDs)
        \cup {id \in DOMAIN substream.ResendScheduler : id < baseSequenceID}

\* The ids removed from the scheduler: the listed ones and every pending id
\* that is not above the base
AggregateIDs(substream, baseSequenceID, sequenceIDs) ==
    Range(sequenceIDs)
        \cup {id \in DOMAIN substream.ResendScheduler : id <= baseSequenceID}

\* The acknowledgement of the ids an aggregate acknowledgement names
AcknowledgeAggregate(st, address, substreamID, baseSequenceID, sequenceIDs) ==
    IF ~HasSubstream(st.clients[address], substreamID) THEN Panic(st)
    ELSE AcknowledgePackets(st, address, substreamID,
             AggregateIDs(reliableSubstream(st.clients[address], substreamID),
                          baseSequenceID, sequenceIDs))

\* New format, after the header of the payload was read
MultiAcknowledgmentNewIDs(st, address, substreamID, additionalIDsCount, baseSequenceID) ==
    AcknowledgeAggregate(st, address, substreamID, baseSequenceID.value,
        IF additionalIDsCount = 0 THEN <<>>
        ELSE ReadAdditionalIDs(ReadUInt16LE(baseSequenceID.stream),
                               additionalIDsCount, <<>>))

MultiAcknowledgmentNewCount(st, address, substreamID, additionalIDsCount) ==
    MultiAcknowledgmentNewIDs(st, address, substreamID, additionalIDsCount.value,
                              ReadUInt16LE(additionalIDsCount.stream))

MultiAcknowledgmentNew(st, address, substreamID) ==
    MultiAcknowledgmentNewCount(st, address, substreamID.value,
                                ReadUInt8(substreamID.stream))

\* An old format that acknowledges up to the base and forgets the ids
MultiAcknowledgmentOldBaseOnly(st, packet, additional) ==
    IF additional.hung THEN [st EXCEPT !.hung = TRUE]
    ELSE AcknowledgePackets(st, packet.sender, 0,
             AggregateIDs(reliableSubstream(st.clients[packet.sender], 0),
                          packet.sequenceID, <<>>))

\* Old format, after the additional ids were read
MultiAcknowledgmentOld(st, packet, additional) ==
    IF additional.hung THEN [st EXCEPT !.hung = TRUE]
    ELSE AcknowledgePackets(st, packet.sender, 0,
             AggregateIDs(reliableSubstream(st.clients[packet.sender], 0),
                          packet.sequenceID, additional.sequenceIDs))

handleMultiAcknowledgment(st, packet) ==
    IF packet.substreamID = 1
    THEN MultiAcknowledgmentNew(st, packet.sender,
                                ReadUInt8(NewStreamIn(packet.payload)))
    ELSE IF ~HasSubstream(st.clients[packet.sender], 0) THEN Panic(st)
    ELSE MultiAcknowledgmentOld(st, packet,
             IF Remaining(NewStreamIn(packet.payload)) > 0
             THEN ReadRemainingIDs(ReadUInt16LE(NewStreamIn(packet.payload)), <<>>)
             ELSE [hung |-> FALSE, sequenceIDs |-> <<>>])

\* A handleAcknowledgment that takes every ACK to be for substream 0
handleAcknowledgmentSubstreamZero(st, packet) ==
    IF HasFlag(packet, "MULTI_ACK")
    THEN handleMultiAcknowledgment(st, packet)
    ELSE IF ~HasSubstream(st.clients[packet.sender], 0)
    THEN Panic(st)
    ELSE AcknowledgePackets(st, packet.sender, 0, {packet.sequenceID})

handleAcknowledgment(st, packet) ==
    IF HasFlag(packet, "MULTI_ACK")
    THEN handleMultiAcknowledgment(st, packet)
    ELSE IF ~HasSubstream(st.clients[packet.sender], packet.substreamID)
    THEN Panic(st)
    ELSE AcknowledgePackets(st, packet.sender, packet.substreamID,
                            {packet.sequenceID})

resetHeartbeat(st, packet) ==
    Log([st EXCEPT !.clients[packet.sender].heartbeat = "running"],
        Effect("resetHeartbeat", packet.sender, "", packet))

\* A processPacket that takes the acknowledgement flags of DATA packets only
processPacketTypeOfData(st, packet, serverTime) ==
    IF /\ packet.type = "DATA"
       /\ HasFlag(packet, "ACK") \/ HasFlag(packet, "MULTI_ACK")
    THEN handleAcknowledgment(st, packet)
    ELSE CASE packet.type = "SYN"        -> handleSyn(st, packet)
           [] packet.type = "CONNECT"    -> handleConnect(st, packet, serverTime)
           [] packet.type = "DATA"       -> handleData(st, packet)
           [] packet.type = "DISCONNECT" -> handleDisconnect(st, packet)
           [] packet.type = "PING"       -> handlePing(st, packet)

\* processPacket after the heartbeat was reset
processPacketType(st, packet, serverTime) ==
    IF HasFlag(packet, "ACK") \/ HasFlag(packet, "MULTI_ACK")
    THEN handleAcknowledgment(st, packet)
    ELSE CASE packet.type = "SYN"        -> handleSyn(st, packet)
           [] packet.type = "CONNECT"    -> handleConnect(st, packet, serverTime)
           [] packet.type = "DATA"       -> handleData(st, packet)
           [] packet.type = "DISCONNECT" -> handleDisconnect(st, packet)
           [] packet.type = "PING"       -> handlePing(st, packet)

\* A processPacket that hands acknowledgements on before it resets the
\* heartbeat
processPacketAcknowledgmentFirst(st, packet, serverTime) ==
    IF HasFlag(packet, "ACK") \/ HasFlag(packet, "MULTI_ACK")
    THEN handleAcknowledgment(st, packet)
    ELSE processPacketType(resetHeartbeat(st, packet), packet, serverTime)

processPacket(st, packet, serverTime) ==
    processPacketType(resetHeartbeat(st, packet), packet, serverTime)

\* handleSocketMessage for a datagram that holds one packet: the peer is
\* looked up, or created and registered, and the packet is processed
handleSocketMessage(st, address, packet, serverTime) ==
    processPacket(
        IF MapHas(st.clients, address) THEN st
        ELSE Log([st EXCEPT !.clients = MapSet(@, address, NewPRUDPClient(address))],
                 Effect("NewPRUDPClient", address, "", packet)),
        packet, serverTime)

\* The worker in the loop of handleSocketMessage: the world, the peer object
\* it looked up or created, and whether the registry still holds that object
Ranging(st, sender, registered) ==
    [st |-> st, sender |-> sender, registered |-> registered]

\* The world as a handler of the loop finds it: the sender of the packet is
\* the object of the worker, in the registry or not
SenderWorld(loop, address) ==
    [loop.st EXCEPT !.clients = MapSet(@, address, loop.sender)]

\* The loop after a handler left the world handled: handleDisconnect has
\* cleaned the object up and deleted the entry of the address, the other
\* handlers leave the registry alone
AfterPacket(loop, address, handled) ==
    IF MapHas(handled.clients, address)
    THEN Ranging([handled EXCEPT !.clients =
                     IF loop.registered THEN @ ELSE MapDelete(@, address)],
                 handled.clients[address], loop.registered)
    ELSE Ranging(handled, cleanup(loop.sender), FALSE)

\* for _, packet := range packets { s.processPacket(packet) }: every packet
\* is processed with the object that was looked up before the loop
RECURSIVE processPackets(_, _, _, _)
processPackets(loop, address, packets, serverTime) ==
    IF packets = <<>> \/ loop.st.panicked \/ loop.st.hung THEN loop.st
    ELSE processPackets(
             AfterPacket(loop, address,
                 processPacket(SenderWorld(loop, address), Head(packets),
                               serverTime)),
             address, Tail(packets), serverTime)

\* handleSocketMessage for a datagram that holds several packets: the peer
\* is looked up once, or created and registered, and the packets are
\* processed one after the other
handleSocketMessagePackets(st, address, packets, serverTime) ==
    IF MapHas(st.clients, address)
    THEN processPackets(Ranging(st, st.clients[address], TRUE), address,
                        packets, serverTime)
    ELSE processPackets(
             Ranging(Log([st EXCEPT !.clients =
                             MapSet(@, address, NewPRUDPClient(address))],
                         Effect("NewPRUDPClient", address, "", Head(packets))),
                     NewPRUDPClient(address), TRUE),
             address, packets, serverTime)

\* A handleSocketMessage that registers a new peer without starting its
\* heartbeat
handleSocketMessageUnstarted(st, address) ==
    IF MapHas(st.clients, address) THEN st
    ELSE Log([st EXCEPT !.clients =
                 MapSet(@, address,
                        [NewPRUDPClient(address) EXCEPT !.heartbeat = "stopped"])],
             Effect("NewPRUDPClient", address, "",
                    NewPRUDPPacket(0, address)))

\* handleSocketMessage for a datagram that decodes to no packet: the peer is
\* looked up, or created with its heartbeat started and registered
handleSocketMessageNoPackets(st, address) ==
    IF MapHas(st.clients, address) THEN st
    ELSE Log([st EXCEPT !.clients = MapSet(@, address, NewPRUDPClient(address))],
             Effect("NewPRUDPClient", address, "",
                    NewPRUDPPacket(0, address)))

\* The heartbeat of a peer expires: the peer is cleaned up and taken out of
\* the registry, and disconnect is emitted
heartbeatExpire(st, address) ==
    emit(Log([Log([st EXCEPT !.clients[address] = cleanup(@)],
                  Effect("cleanup", address, "", NewPRUDPPacket(0, address)))
              EXCEPT !.clients = MapDelete(@, address)],
             Effect("Delete", address, "", NewPRUDPPacket(0, address))),
         "disconnect", NewPRUDPPacket(0, address))

\* The retransmit timer of a scheduled packet fires: the packet is written
\* to the socket again as it was scheduled
resend(st, pending) == sendRaw(st, pending.sender, pending)

\* PRUDPServer.PRUDPVersion, which NewPRUDPServer leaves at its zero value
PRUDPVersion == 0

sendPing(st, client) ==
    sendPacket(st,
        [NewPRUDPPacket(PRUDPVersion, client.address) EXCEPT
            !.type = "PING",
            !.flags = {"NEEDS_ACK"},
            !.sourceStreamType = client.destinationStreamType,
            !.sourcePort = client.destinationPort,
            !.destinationStreamType = client.sourceStreamType,
            !.destinationPort = client.sourcePort,
            !.substreamID = 0]).st

\* The variables of the loop of Send after a sendPacket
Looping(sending, data, fragmentID) ==
    [st |-> sending.st, packet |-> sending.packet, data |-> data,
     fragmentID |-> fragmentID]

\* One iteration of the loop of Send: the rest of the data when it is shorter
\* than a fragment, with fragment id 0, or else the next FragmentSize bytes
\* with the next fragment id, which is a uint8
SendIteration(loop) ==
    IF loop.st.panicked THEN loop
    ELSE IF Len(loop.data) < FragmentSize
    THEN Looping(sendPacket(loop.st,
                     [loop.packet EXCEPT !.payload = loop.data, !.fragmentID = 0]),
                 loop.data, loop.fragmentID)
    ELSE Looping(sendPacket(loop.st,
                     [loop.packet EXCEPT
                         !.payload = SubSeq(loop.data, 1, FragmentSize),
                         !.fragmentID = loop.fragmentID]),
                 SubSeq(loop.data, FragmentSize + 1, Len(loop.data)),
                 U8(loop.fragmentID + 1))

\* The loop of Send: a number of iterations, one after the other
RECURSIVE SendLoop(_, _)
SendLoop(loop, iterations) ==
    IF iterations = 0 THEN loop
    ELSE SendLoop(SendIteration(loop), iterations - 1)

\* Send: fragments + 1 iterations, fragments being len(data) / FragmentSize
Send(st, packet) ==
    SendLoop(Looping(Sending(st, packet), packet.payload, 1),
             (Len(packet.payload) \div FragmentSize) + 1).st

----------------------------------------------------------------------------
(* The peers: what a remote client sends                                   *)

Addresses == {<<10, 0, 0, 1, 5000>>, <<10, 0, 0, 2, 5001>>}

\* The PRUDP version a remote client speaks
VersionOf(address) == IF AddressPort(address) = 5000 THEN 0 ELSE 1

\* The substream ids the modelled clients use
SubstreamIDs == {0, 1}

\* The session key the authentication server gave the client
ClientSessionKey == [i \in 1..KerberosKeySize |-> 160 + i]

\* The key a client encrypts its reliable payloads with
ClientKey == IF IsSecureServer THEN ClientSessionKey ELSE <<>>

IssuedAt == NewDateTime(2023, 11, 5, 12, 0, 0)

TicketInternalData(issued, sourcePID, sessionKey) ==
    issued \o Word32(sourcePID) \o sessionKey

RequestData(userPID, cid, checkValue) ==
    Word32(userPID) \o Word32(cid) \o checkValue

\* The CONNECT payload of a client holding a ticket: the ticket, then the request
KerberosPayload(password, checkValue) ==
    WriteBuffer(
        WriteBuffer(<<>>,
            KerberosEncrypt(DeriveKerberosKey(2, password),
                TicketInternalData(IssuedAt, 1234, ClientSessionKey))),
        KerberosEncrypt(ClientSessionKey, RequestData(1234, 10, checkValue)))

\* 0, 0xDEADBEEF and 0xFFFFFFFF
CheckValues == {Word32(0), <<239, 190, 173, 222>>, <<255, 255, 255, 255>>}

\* <<payload, server time>> of the modelled CONNECT packets of a secure
\* server: valid tickets, a ticket at and past its time limit, a ticket made
\* with another password, a payload cut short
SecureConnects ==
    {<<KerberosPayload(kerberosPassword, c), Standard(IssuedAt)>> : c \in CheckValues}
    \cup {<<KerberosPayload(kerberosPassword, Word32(0)), Standard(IssuedAt) + d>> :
              d \in {120, 121}}
    \cup {<<KerberosPayload(<<1, 2>>, Word32(0)), Standard(IssuedAt)>>,
          <<SubSeq(KerberosPayload(kerberosPassword, Word32(0)), 1, 30),
            Standard(IssuedAt)>>}

InsecureConnects == {<<<<>>, Standard(IssuedAt)>>}

\* A CONNECT payload whose ticket is made with a password and whose request
\* block is encrypted with a key
TicketPayload(password, requestKey, request) ==
    WriteBuffer(
        WriteBuffer(<<>>,
            KerberosEncrypt(DeriveKerberosKey(2, password),
                TicketInternalData(IssuedAt, 1234, ClientSessionKey))),
        KerberosEncrypt(requestKey, request))

\* The payload of a client that holds a ticket of the server
GoodTicket ==
    TicketPayload(kerberosPassword, ClientSessionKey,
                  RequestData(1234, 10, <<239, 190, 173, 222>>))

\* A ticket of another server: its MAC does not match
ForeignTicket ==
    TicketPayload(<<1, 2>>, ClientSessionKey,
                  RequestData(1234, 10, <<239, 190, 173, 222>>))

\* A request block encrypted with a key that is not the ticket's session key
ForeignRequest ==
    TicketPayload(kerberosPassword, [i \in 1..KerberosKeySize |-> 7 * i],
                  RequestData(1234, 10, <<239, 190, 173, 222>>))

\* A request block that decrypts and ends before its check value
ShortRequest ==
    TicketPayload(kerberosPassword, ClientSessionKey, Word32(1234) \o Word32(10))

\* Seconds after the ticket was issued at which the server reads it
TicketAges == {0, 1, 119, 120, 121, 122, 600}

\* <<payload, server time>> of the CONNECT attempts on a secure server: a good
\* ticket at every age, and every way readKerberosTicket fails, fresh and expired
SecureAttempts ==
    {<<GoodTicket, Standard(IssuedAt) + age>> : age \in TicketAges}
    \cup {<<payload, Standard(IssuedAt) + age>> :
              payload \in {ForeignTicket, ForeignRequest}, age \in {0, 121}}
    \cup {<<payload, Standard(IssuedAt)>> :
              payload \in {ShortRequest, <<>>, SubSeq(GoodTicket, 1, 30),
                           SubSeq(GoodTicket, 1, Len(GoodTicket) - 1)}}

\* The header of a client's packet
ClientHeader(address, type, flags) ==
    [NewPRUDPPacket(VersionOf(address), address) EXCEPT
        !.type = type,
        !.flags = flags,
        !.sourceStreamType = 10,
        !.sourcePort = 15,
        !.destinationStreamType = 10,
        !.destinationPort = 1]

\* A packet as the codec decodes it from a client's datagram: the client
\* signed it with its key and the connection signature of the server
Signed(packet) ==
    [packet EXCEPT !.signature =
        calculateSignature(packet, ClientKey,
            calculateConnectionSignature(packet.version, packet.sender))]

NeedsAck(needsAck) == IF needsAck THEN {"NEEDS_ACK"} ELSE {}

\* The ways a sender can cut MaxSeq packets into messages: fragment ids 1, 2,
\* ... and 0 for the last fragment of each message
FragmentScripts ==
    {f \in [1..MaxSeq -> 0..(MaxSeq - 1)] :
        /\ f[1] \in {0, 1}
        /\ f[MaxSeq] = 0
        /\ \A i \in 2..MaxSeq : f[i] = 0 \/ f[i] = f[i - 1] + 1}

\* The cleartext the sender puts in the packet with a sequence id
ClearPayload(sequenceID) == <<64 + sequenceID>>

\* The reliable DATA packet a client sends with a sequence id; a client asks
\* for the acknowledgement of every reliable packet
ClientData(address, substreamID, sequenceID) ==
    Signed([ClientHeader(address, "DATA", {"RELIABLE", "NEEDS_ACK"}) EXCEPT
        !.substreamID = substreamID,
        !.sequenceID = sequenceID,
        !.fragmentID = senderFrags[sequenceID],
        !.payload = RC4(ClientKey, sequenceID - FirstSequenceID,
                        ClearPayload(sequenceID))])

----------------------------------------------------------------------------
(* Actions                                                                 *)

\* The listenDatagram goroutines the model runs (Listen starts one per CPU)
Workers == {1, 2}

\* The goroutines of the layer above that call Send
Senders == {1, 2}

\* A caller outside Send
NotSending ==
    [pc |-> "Send", packet |-> NewPRUDPPacket(PRUDPVersion, <<>>), data |-> <<>>,
     fragmentID |-> 0, fragments |-> 0, i |-> 0]

\* A worker at the top of handleSocketMessage
Idle ==
    [pc |-> "ReadFromUDP", address |-> <<>>, client |-> 0,
     packet |-> NewPRUDPPacket(PRUDPVersion, <<>>), reads |-> 0]

\* NewStreamIn(data, server), nothing read yet
NewReader(data) ==
    [stream |-> NewStreamIn(data), read |-> "NewStreamIn", lengthSize |-> 0,
     err |-> FALSE, value |-> <<>>]

Init ==
    /\ IsSecureServer \in BOOLEAN
    /\ senderFrags \in FragmentScripts
    /\ clients = EmptyMap
    /\ panicked = FALSE
    /\ hung = FALSE
    /\ last = [op |-> "NewPRUDPServer", address |-> <<>>,
               packet |-> NewPRUDPPacket(PRUDPVersion, <<>>), serverTime |-> 0]
    /\ oplog = <<>>
    /\ peers = <<>>
    /\ registry = EmptyMap
    /\ workers = [w \in Workers |-> Idle]
    /\ senders = [c \in Senders |-> NotSending]
    /\ idle = EmptyMap
    /\ eventHandlers = <<>>
    /\ tasks = <<>>
    /\ reader = NewReader(<<>>)

Running == ~panicked /\ ~hung

\* The heartbeat timers after an operation: the timer of a peer the operation
\* created or whose heartbeat it reset starts anew, the timers of the other
\* registered peers run on
Elapsed(st) ==
    [address \in DOMAIN st.clients |->
        IF \E i \in DOMAIN st.oplog :
               /\ st.oplog[i].op \in {"NewPRUDPClient", "resetHeartbeat"}
               /\ st.oplog[i].address = address
        THEN 0
        ELSE IF address \in DOMAIN idle THEN idle[address] ELSE 0]

\* Two emissions hand the same packet object to the handlers: handleReliable
\* emits the packet that arrived once per message and changes nothing of it
\* but its message
SamePacket(emission, other) ==
    /\ other.op = "emit"
    /\ other.name = emission.name
    /\ [other.packet EXCEPT !.message = <<>>]
           = [emission.packet EXCEPT !.message = <<>>]

\* The messages SetRMCMessage gives the packet of an emission in the rest of
\* the operation
Replacing(emission, effects) ==
    [i \in DOMAIN SelectSeq(effects, LAMBDA other : SamePacket(emission, other)) |->
        SelectSeq(effects, LAMBDA other : SamePacket(emission, other))[i].packet.message]

\* emit, for each emission of the operation: go handler(packet), for every
\* handler registered for the name, in the order of registration.  The
\* goroutine holds the packet object, not a copy of it.
RECURSIVE Started(_, _)
Started(effects, handlers) ==
    IF effects = <<>> THEN <<>>
    ELSE (IF Head(effects).op = "emit"
          THEN SelectSeq([i \in DOMAIN handlers |->
                             [name     |-> handlers[i].name,
                              handler  |-> i,
                              address  |-> Head(effects).address,
                              message  |-> Head(effects).packet.message,
                              replaced |-> Replacing(Head(effects), Tail(effects)),
                              pc       |-> "started"]],
                         LAMBDA task : task.name = Head(effects).name)
          ELSE <<>>)
         \o Started(Tail(effects), handlers)

\* The state after an operation that left the world st
Becomes(op, address, packet, serverTime, st) ==
    /\ clients' = st.clients
    /\ oplog' = st.oplog
    /\ panicked' = st.panicked
    /\ hung' = st.hung
    /\ last' = [op |-> op, address |-> address, packet |-> packet,
                serverTime |-> serverTime]
    /\ idle' = Elapsed(st)
    /\ tasks' = tasks \o Started(st.oplog, eventHandlers)
    /\ UNCHANGED <<IsSecureServer, reader, senderFrags, peers, registry, workers, senders,
                   eventHandlers>>

\* The clients talk to the server one at a time: a datagram comes from the
\* registered peer, or from any address when no peer is registered.
Listening(address) == Running /\ DOMAIN clients \subseteq {address}

\* A worker reads a datagram of one packet from the socket and handles it
Receive(address, packet, serverTime) ==
    Becomes("handleSocketMessage", address, packet, serverTime,
            handleSocketMessage(World, address, packet, serverTime))

ReceiveSyn ==
    \E address \in Addresses :
        /\ Listening(address)
        /\ Receive(address,
               Signed([ClientHeader(address, "SYN", {"NEEDS_ACK"}) EXCEPT
                   !.connectionSignature = Zeros(SignatureLength(VersionOf(address)))]),
               Standard(IssuedAt))

ReceiveConnect ==
    \E address \in Addresses,
       maximumSubstreamID \in SubstreamIDs,
       connect \in SecureConnects \cup InsecureConnects :
        /\ VersionOf(address) = 0 => maximumSubstreamID = 0
        /\ connect \in IF IsSecureServer THEN SecureConnects ELSE InsecureConnects
        /\ Listening(address)
        /\ Receive(address,
               Signed([ClientHeader(address, "CONNECT", {"RELIABLE", "NEEDS_ACK"}) EXCEPT
                   !.connectionSignature =
                       calculateConnectionSignature(VersionOf(address), address),
                   !.sequenceID = 1,
                   !.minorVersion = IF VersionOf(address) = 1 THEN 3 ELSE 0,
                   !.supportedFunctions = IF VersionOf(address) = 1 THEN 127 ELSE 0,
                   !.maximumSubstreamID = maximumSubstreamID,
                   !.payload = connect[1]]),
               connect[2])

ReceiveReliableData ==
    \E address \in Addresses, substreamID \in SubstreamIDs, sequenceID \in 1..MaxSeq :
        /\ Listening(address)
        /\ Receive(address, ClientData(address, substreamID, sequenceID),
                   Standard(IssuedAt))

ReceiveUnreliableData ==
    \E address \in Addresses, needsAck \in BOOLEAN :
        /\ Listening(address)
        /\ Receive(address,
               Signed([ClientHeader(address, "DATA", NeedsAck(needsAck)) EXCEPT
                   !.sequenceID = 1, !.payload = <<85>>]),
               Standard(IssuedAt))

ReceivePing ==
    \E address \in Addresses, needsAck \in BOOLEAN :
        /\ Listening(address)
        /\ Receive(address,
               Signed([ClientHeader(address, "PING", NeedsAck(needsAck)) EXCEPT
                   !.sequenceID = 7]),
               Standard(IssuedAt))

ReceiveDisconnect ==
    \E address \in Addresses, needsAck \in BOOLEAN :
        /\ Listening(address)
        /\ Receive(address,
               Signed([ClientHeader(address, "DISCONNECT", NeedsAck(needsAck)) EXCEPT
                   !.sequenceID = 9]),
               Standard(IssuedAt))

ReceiveAcknowledgment ==
    \E address \in Addresses, substreamID \in SubstreamIDs,
       sequenceID \in 1..MaxOutgoing :
        /\ Listening(address)
        /\ Receive(address,
               Signed([ClientHeader(address, "DATA", {"ACK"}) EXCEPT
                   !.substreamID = substreamID, !.sequenceID = sequenceID]),
               Standard(IssuedAt))

\* Aggregate acknowledgements: the new format names the substream in the
\* payload, the old format carries the additional ids only
ReceiveMultiAcknowledgment ==
    \E address \in Addresses, base \in 1..(MaxOutgoing + 1), newFormat \in BOOLEAN :
        /\ Listening(address)
        /\ Receive(address,
               Signed([ClientHeader(address, "DATA", {"MULTI_ACK"}) EXCEPT
                   !.substreamID = IF newFormat THEN 1 ELSE 0,
                   !.sequenceID = IF newFormat THEN 0 ELSE base,
                   !.payload = IF newFormat
                               THEN <<0, 1>> \o LEBytes(base, 2) \o LEBytes(base + 2, 2)
                               ELSE LEBytes(base + 2, 2)]),
               Standard(IssuedAt))

\* The additional ids an aggregate acknowledgement lists: one that may be
\* pending, or two of which one was never sent
AdditionalIDs == {<<MaxOutgoing + 1>>, <<1, MaxOutgoing + 2>>}

\* The base of an aggregate acknowledgement: below every id sent, or none
\* of them above it
AggregateBases == {0, MaxOutgoing + 1}

\* The ids of a payload, two bytes each
RECURSIVE IDBytes(_)
IDBytes(sequenceIDs) ==
    IF sequenceIDs = <<>> THEN <<>>
    ELSE LEBytes(Head(sequenceIDs), 2) \o IDBytes(Tail(sequenceIDs))

\* An aggregate acknowledgement in the new format: substream id 1, and the
\* substream, the count, the base and the ids in the payload
NewAggregate(address, realSubstreamID, base, additional) ==
    Signed([ClientHeader(address, "DATA", {"MULTI_ACK"}) EXCEPT
        !.substreamID = 1,
        !.payload = <<realSubstreamID, Len(additional)>> \o LEBytes(base, 2)
                        \o IDBytes(additional)])

\* An aggregate acknowledgement in the old format: the base is the sequence
\* id and the payload is the ids
OldAggregate(address, substreamID, base, additional) ==
    Signed([ClientHeader(address, "DATA", {"MULTI_ACK"}) EXCEPT
        !.substreamID = substreamID,
        !.sequenceID = base,
        !.payload = IDBytes(additional)])

ReceiveNewAggregate ==
    \E address \in Addresses, realSubstreamID \in SubstreamIDs,
       base \in AggregateBases, additional \in AdditionalIDs :
        /\ Listening(address)
        /\ Receive(address,
                   NewAggregate(address, realSubstreamID, base, additional),
                   Standard(IssuedAt))

ReceiveOldAggregate ==
    \E address \in Addresses, substreamID \in {0, 2},
       base \in AggregateBases, additional \in AdditionalIDs :
        /\ Listening(address)
        /\ Receive(address,
                   OldAggregate(address, substreamID, base, additional),
                   Standard(IssuedAt))

\* The payloads of an old-format aggregate acknowledgement, of every length
\* from no byte to two ids
OldPayloads == {SubSeq(IDBytes(<<1, MaxOutgoing + 2>>), 1, n) : n \in 0..4}

\* An old-format aggregate acknowledgement whose payload is any of them
ReceiveOldPayload ==
    \E address \in Addresses, base \in AggregateBases, payload \in OldPayloads :
        /\ Listening(address)
        /\ Receive(address,
               Signed([ClientHeader(address, "DATA", {"MULTI_ACK"}) EXCEPT
                   !.substreamID = 0,
                   !.sequenceID = base,
                   !.payload = payload]),
               Standard(IssuedAt))

\* A new-format aggregate acknowledgement that declares as many ids as it
\* carries, or more
ReceiveNewDeclared ==
    \E address \in Addresses, base \in AggregateBases,
       additional \in AdditionalIDs, excess \in 0..2 :
        /\ Listening(address)
        /\ Receive(address,
               Signed([ClientHeader(address, "DATA", {"MULTI_ACK"}) EXCEPT
                   !.substreamID = 1,
                   !.payload = <<0, Len(additional) + excess>> \o LEBytes(base, 2)
                                   \o IDBytes(additional)]),
               Standard(IssuedAt))

\* The flags of the acknowledgements a client sends, alone and with others
AcknowledgementFlags ==
    {{"ACK"}, {"ACK", "RELIABLE", "NEEDS_ACK"}, {"MULTI_ACK"}}

\* A packet of any type with ACK or MULTI_ACK set arrives; an aggregate
\* acknowledgement in the new format carries its header in the payload
ReceiveFlagged ==
    \E address \in Addresses, type \in PacketTypes, flags \in AcknowledgementFlags,
       substreamID \in SubstreamIDs, sequenceID \in 1..MaxOutgoing :
        /\ Listening(address)
        /\ Receive(address,
               Signed([ClientHeader(address, type, flags) EXCEPT
                   !.substreamID = substreamID,
                   !.sequenceID = sequenceID,
                   !.payload = IF "MULTI_ACK" \in flags /\ substreamID = 1
                               THEN <<0, 0>> \o LEBytes(sequenceID, 2)
                               ELSE <<>>]),
               Standard(IssuedAt))

\* The connection signature a CONNECT carries: the one of the server's
\* SYN-ACK, or other bytes of the same length
CarriedSignature(address, echoed) ==
    IF echoed THEN calculateConnectionSignature(VersionOf(address), address)
    ELSE [i \in 1..SignatureLength(VersionOf(address)) |->
             255 - calculateConnectionSignature(VersionOf(address), address)[i]]

\* A CONNECT with any of the modelled tickets and connection signatures
ReceiveConnectAttempt ==
    \E address \in Addresses,
       maximumSubstreamID \in SubstreamIDs,
       attempt \in SecureAttempts \cup InsecureConnects,
       echoed \in BOOLEAN :
        /\ VersionOf(address) = 0 => maximumSubstreamID = 0
        /\ attempt \in IF IsSecureServer THEN SecureAttempts ELSE InsecureConnects
        /\ Listening(address)
        /\ Receive(address,
               Signed([ClientHeader(address, "CONNECT", {"RELIABLE", "NEEDS_ACK"}) EXCEPT
                   !.connectionSignature = CarriedSignature(address, echoed),
                   !.sequenceID = 1,
                   !.minorVersion = IF VersionOf(address) = 1 THEN 3 ELSE 0,
                   !.supportedFunctions = IF VersionOf(address) = 1 THEN 127 ELSE 0,
                   !.maximumSubstreamID = maximumSubstreamID,
                   !.payload = attempt[1]]),
               attempt[2])

\* The datagrams the workers read: one packet each
WorkerPackets(address) ==
    {Signed([ClientHeader(address, "SYN", {"NEEDS_ACK"}) EXCEPT
         !.connectionSignature = Zeros(SignatureLength(VersionOf(address)))]),
     Signed([ClientHeader(address, "CONNECT", {"RELIABLE", "NEEDS_ACK"}) EXCEPT
         !.connectionSignature =
             calculateConnectionSignature(VersionOf(address), address),
         !.sequenceID = 1,
         !.payload = IF IsSecureServer THEN GoodTicket ELSE <<>>]),
     Signed([ClientHeader(address, "PING", {"NEEDS_ACK"}) EXCEPT !.sequenceID = 7]),
     Signed([ClientHeader(address, "DISCONNECT", {"NEEDS_ACK"}) EXCEPT
         !.sequenceID = 9])}

\* The state after a step of worker w that left it at next
WorkerBecomes(w, op, next, st) ==
    /\ workers' = [workers EXCEPT ![w] = next]
    /\ oplog' = st.oplog
    /\ panicked' = st.panicked
    /\ hung' = st.hung
    /\ last' = [last EXCEPT !.op = op]
    /\ UNCHANGED <<IsSecureServer, reader, senderFrags, clients, senders, idle,
                   eventHandlers, tasks>>

\* A worker at a statement of handleSocketMessage
At(w, pc) == Running /\ workers[w].pc = pc

\* The datagrams read so far
RECURSIVE Reads(_)
Reads(ws) ==
    IF ws = {} THEN 0
    ELSE LET w == CHOOSE w \in ws : TRUE
         IN  workers[w].reads + Reads(ws \ {w})

\* s.udpSocket.ReadFromUDP returns a datagram to worker w
WorkerRead ==
    \E w \in Workers, address \in Addresses :
        \E packet \in WorkerPackets(address) :
            /\ At(w, "ReadFromUDP")
            /\ Reads(Workers) < MaxDatagrams
            /\ WorkerBecomes(w, "ReadFromUDP",
                   [workers[w] EXCEPT !.pc = "Get", !.address = address,
                                      !.packet = packet, !.reads = @ + 1],
                   World)
            /\ UNCHANGED <<peers, registry>>

\* s.clients.Get(discriminator)
WorkerGet ==
    \E w \in Workers :
        /\ At(w, "Get")
        /\ WorkerBecomes(w, "Get",
               IF MapHas(registry, workers[w].address)
               THEN [workers[w] EXCEPT !.pc = "processPacket",
                                       !.client = registry[workers[w].address]]
               ELSE [workers[w] EXCEPT !.pc = "NewPRUDPClient"],
               World)
        /\ UNCHANGED <<peers, registry>>

\* NewPRUDPClient(addr, s) and client.startHeartbeat()
WorkerNewClient ==
    \E w \in Workers :
        /\ At(w, "NewPRUDPClient")
        /\ peers' = Append(peers, NewPRUDPClient(workers[w].address))
        /\ WorkerBecomes(w, "NewPRUDPClient",
               [workers[w] EXCEPT !.pc = "Set", !.client = Len(peers) + 1],
               World)
        /\ UNCHANGED registry

\* s.clients.Set(discriminator, client)
WorkerSet ==
    \E w \in Workers :
        /\ At(w, "Set")
        /\ registry' = MapSet(registry, workers[w].address, workers[w].client)
        /\ WorkerBecomes(w, "Set", [workers[w] EXCEPT !.pc = "processPacket"],
                         World)
        /\ UNCHANGED peers

\* processPacket, its first statement: the heartbeat of the sender is reset
WorkerResetHeartbeat ==
    \E w \in Workers :
        /\ At(w, "processPacket")
        /\ peers' = [peers EXCEPT ![workers[w].client].heartbeat = "running"]
        /\ WorkerBecomes(w, "resetHeartbeat",
               [workers[w] EXCEPT !.pc = "handle"], World)
        /\ UNCHANGED registry

\* The world a handler of worker w works on: the packet's sender is the
\* object the worker looked up or created
WorkerWorld(w) ==
    [World EXCEPT !.clients =
        MapSet(EmptyMap, workers[w].address, peers[workers[w].client])]

\* The objects and the registry after a handler of worker w left the world st:
\* handleDisconnect cleans its object up and deletes the entry of the address
WorkerHandled(w, st) ==
    /\ peers' = [peers EXCEPT ![workers[w].client] =
                     IF MapHas(st.clients, workers[w].address)
                     THEN st.clients[workers[w].address]
                     ELSE cleanup(@)]
    /\ registry' = IF MapHas(st.clients, workers[w].address) THEN registry
                   ELSE MapDelete(registry, workers[w].address)
    /\ WorkerBecomes(w, "processPacket",
           [Idle EXCEPT !.reads = workers[w].reads], st)

\* processPacket, the rest: the handler of the packet runs and the worker
\* goes back to the socket
WorkerHandle ==
    \E w \in Workers :
        /\ At(w, "handle")
        /\ WorkerHandled(w,
               processPacketType(WorkerWorld(w), workers[w].packet,
                                 Standard(IssuedAt)))

\* The datagrams of two packets a client sends: a DISCONNECT or a PING, and
\* a packet of any kind behind it
Datagrams(address) ==
    {<<Signed([ClientHeader(address, first, {"NEEDS_ACK"}) EXCEPT !.sequenceID = 9]),
       second>> :
        first \in {"DISCONNECT", "PING"},
        second \in WorkerPackets(address) \cup {ClientData(address, 0, FirstSequenceID)}}

\* A worker reads a datagram of several packets from the socket and handles
\* it
ReceiveDatagram ==
    \E address \in Addresses :
        \E packets \in Datagrams(address) :
            /\ Listening(address)
            /\ Becomes("handleSocketMessage", address, Head(packets),
                       Standard(IssuedAt),
                       handleSocketMessagePackets(World, address, packets,
                                                  Standard(IssuedAt)))

\* The heartbeat timer of a peer fires
HeartbeatPing ==
    \E address \in DOMAIN clients :
        /\ Running
        /\ clients[address].outgoingPingSequenceID <= MaxOutgoing
        /\ Becomes("sendPing", address, NewPRUDPPacket(PRUDPVersion, address), 0,
                   sendPing(World, clients[address]))

\* A datagram that decodes to no packet arrives
ReceiveNoPackets ==
    \E address \in Addresses :
        /\ Listening(address)
        /\ Becomes("handleSocketMessageNoPackets", address,
                   NewPRUDPPacket(0, address), 0,
                   handleSocketMessageNoPackets(World, address))

\* The clock ticks: the heartbeat timers run on.  No tick passes a timer
\* that is due.
Tick ==
    /\ Running
    /\ \E address \in DOMAIN idle : idle[address] <= PingTimeout
    /\ \A address \in DOMAIN clients :
           clients[address].heartbeat = "running" => idle[address] <= PingTimeout
    /\ idle' = [address \in DOMAIN idle |->
                   IF idle[address] <= PingTimeout THEN idle[address] + 1
                   ELSE idle[address]]
    /\ last' = [op |-> "Tick", address |-> <<>>,
                packet |-> NewPRUDPPacket(0, <<>>), serverTime |-> 0]
    /\ oplog' = <<>>
    /\ UNCHANGED <<IsSecureServer, reader, senderFrags, clients, panicked, hung, peers,
                   registry, workers, senders, eventHandlers, tasks>>

\* The heartbeat timer of a peer has run for longer than the ping timeout
HeartbeatExpire ==
    \E address \in DOMAIN clients :
        /\ Running
        /\ clients[address].heartbeat = "running"
        /\ idle[address] > PingTimeout
        /\ Becomes("heartbeatExpire", address, NewPRUDPPacket(0, address), 0,
                   heartbeatExpire(World, address))

\* The retransmit timer of a packet in a scheduler fires
Retransmit(address, substreamID, sequenceID) ==
    /\ Running
    /\ MapHas(clients, address)
    /\ HasSubstream(clients[address], substreamID)
    /\ MapHas(reliableSubstream(clients[address], substreamID).ResendScheduler,
              sequenceID)
    /\ Becomes("resend", address,
               reliableSubstream(clients[address], substreamID).ResendScheduler[
                   sequenceID],
               0,
               resend(World,
                      reliableSubstream(clients[address], substreamID).ResendScheduler[
                          sequenceID]))

\* The sequence ids of the packets the layer above sends
OutgoingIDs == 1..(MaxOutgoing + 1)

RetransmitAny ==
    \E address \in Addresses, substreamID \in SubstreamIDs,
       sequenceID \in OutgoingIDs :
        Retransmit(address, substreamID, sequenceID)

\* The bytes of a length field at the head of a stream
LengthFields ==
    {<<>>, <<2>>, <<0, 0>>, <<2, 0>>, <<3, 0>>, <<255, 255>>,
     <<0, 0, 0>>, <<0, 0, 0, 0>>, <<2, 0, 0, 0>>, <<3, 0, 0, 0>>,
     <<0, 0, 1, 0>>, <<255, 255, 255, 127>>}

\* The bytes that follow it, every third one a NUL
Body(n) == [i \in 1..n |-> IF i % 3 = 0 THEN 0 ELSE 10 + i]

\* The data of the streams read
StreamData == {field \o Body(n) : field \in LengthFields, n \in 0..MaxBody}

\* The reader after a read of its stream
AfterRead(read, lengthSize, result) ==
    /\ reader' = [stream |-> result.stream, read |-> read,
                  lengthSize |-> lengthSize, err |-> result.err,
                  value |-> result.value]
    /\ UNCHANGED <<IsSecureServer, senderFrags, clients, panicked, hung, last,
                   oplog, peers, registry, workers, senders, idle,
                   eventHandlers, tasks>>

ReadPrimitiveAny ==
    \E read \in PrimitiveReads :
        /\ reader.stream.offset <= Len(reader.stream.data)
        /\ AfterRead(read, 0, ReadPrimitive(reader.stream, read))

ReadBufferNext ==
    /\ reader.stream.offset <= Len(reader.stream.data)
    /\ AfterRead("ReadBuffer", 4, ReadBuffer(reader.stream))

ReadQBufferNext ==
    /\ reader.stream.offset <= Len(reader.stream.data)
    /\ AfterRead("ReadQBuffer", 2, ReadQBuffer(reader.stream))

\* ReadString with the string length size of the server, 4 or another
ReadStringNext ==
    \E stringLengthSize \in {2, 4} :
        /\ reader.stream.offset <= Len(reader.stream.data)
        /\ AfterRead("ReadString", stringLengthSize,
                     ReadString(reader.stream, stringLengthSize))

\* The events the server emits
EventNames == {"syn", "connect", "disconnect", "reliable-data"}

\* on: the handler is appended to the handlers of the event
On(name) ==
    /\ Running
    /\ Len(eventHandlers) < MaxHandlers
    /\ eventHandlers' = Append(eventHandlers, [name |-> name])
    /\ last' = [op |-> "on", address |-> <<>>,
                packet |-> NewPRUDPPacket(0, <<>>), serverTime |-> 0]
    /\ oplog' = <<>>
    /\ UNCHANGED <<clients, panicked, hung, idle, tasks, IsSecureServer, reader,
                   senderFrags, peers, registry, workers, senders>>

OnAny == \E name \in {"syn", "disconnect"} : On(name)

\* What a handler of the layer above may do with its call: return, never
\* return, or panic
HandlerOutcomes == {"returns", "blocks", "panics"}

\* The tasks without the one at the index
WithoutTask(i) == [j \in 1..(Len(tasks) - 1) |->
                      IF j < i THEN tasks[j] ELSE tasks[j + 1]]

\* The messages a handler may find on its packet: the one of its event, or
\* one that handleReliable set on the same object later, since the write of
\* the worker and the read of the goroutine are not ordered
Observable(task) == {task.message} \cup Range(task.replaced)

\* OnReliableData: the handler of the reliable-data event
OnReliableData == On("reliable-data")

\* go handler(packet): the goroutine runs the handler, which reads the
\* message of the packet.  When the handler returns the goroutine is gone,
\* when it blocks the goroutine stays, and when it panics the process ends,
\* since nothing recovers.
HandlerRuns(i, outcome) ==
    /\ Running
    /\ i \in DOMAIN tasks
    /\ tasks[i].pc = "started"
    /\ tasks' = CASE outcome = "returns" -> WithoutTask(i)
                  [] outcome = "blocks" -> [tasks EXCEPT ![i].pc = "blocked"]
                  [] outcome = "panics" -> [tasks EXCEPT ![i].pc = "panicked"]
    /\ panicked' = (outcome = "panics")
    /\ \E observed \in Observable(tasks[i]) :
           last' = [op |-> "handler", address |-> tasks[i].address,
                    packet |-> [NewPRUDPPacket(0, tasks[i].address) EXCEPT
                                   !.message = observed],
                    serverTime |-> 0]
    /\ oplog' = <<>>
    /\ UNCHANGED <<clients, hung, idle, eventHandlers, IsSecureServer, reader,
                   senderFrags, peers, registry, workers, senders>>

HandlerRunsAny ==
    \E i \in 1..(MaxTasks + MaxHandlers), outcome \in HandlerOutcomes :
        HandlerRuns(i, outcome)

\* A datagram arrives while few goroutines of handlers are alive
ReceiveWhileHandlersRun ==
    /\ Len(tasks) < MaxTasks
    /\ (ReceiveSyn \/ ReceiveDisconnect)

\* A payload of the layer above
SendPayload(length) == [i \in 1..length |-> 80 + (i % 16)]

\* The payloads the layer above sends in one step: less than a fragment,
\* exactly one fragment, and more than one
SendPayloads == {SendPayload(n) : n \in {1, FragmentSize, FragmentSize + 1}}

\* The type and flags of the other packets the layer above sends
SendKinds == {<<"DATA", {}>>, <<"PING", {"RELIABLE"}>>, <<"DISCONNECT", {}>>}

\* A packet the layer above builds for a peer
ServerPacket(client, type, flags, substreamID, payload) ==
    [NewPRUDPPacket(VersionOf(client.address), client.address) EXCEPT
        !.type = type,
        !.flags = flags,
        !.sourceStreamType = client.destinationStreamType,
        !.sourcePort = client.destinationPort,
        !.destinationStreamType = client.sourceStreamType,
        !.destinationPort = client.sourcePort,
        !.substreamID = substreamID,
        !.payload = payload]

\* The packets the layer above sends to a peer: reliable messages on every
\* substream, and one packet of every other kind
ServerPackets(client) ==
    {ServerPacket(client, "DATA", {"RELIABLE", "NEEDS_ACK"}, substreamID, payload) :
        substreamID \in SubstreamIDs, payload \in SendPayloads}
    \cup {ServerPacket(client, kind[1], kind[2], 0, <<80>>) : kind \in SendKinds}

\* The counter sendPacket takes the sequence id of a packet from is within
\* the modelled range
CanSend(client, packet) ==
    IF HasFlag(packet, "RELIABLE")
    THEN /\ HasSubstream(client, packet.substreamID)
         /\ reliableSubstream(client, packet.substreamID).outgoingSequenceID
                <= MaxOutgoing
    ELSE IF packet.type = "DATA"
    THEN client.outgoingUnreliableSequenceID <= MaxOutgoing
    ELSE IF packet.type = "PING"
    THEN client.outgoingPingSequenceID <= MaxOutgoing
    ELSE TRUE

\* The layer above sends a packet to a connected peer
ServerSend ==
    \E address \in DOMAIN clients :
        \E packet \in ServerPackets(clients[address]) :
            /\ Running
            /\ CanSend(clients[address], packet)
            /\ Becomes("Send", address, packet, 0, Send(World, packet))

\* The last sequence id of a substream before its uint16 counter wraps
LastSequenceID == U16(0 - 1)

\* A substream that has sent packets of one byte up to the one before the
\* last sequence id, every one of them acknowledged
Worn(substream) ==
    [substream EXCEPT !.outgoingSequenceID = LastSequenceID,
                      !.cipher.pos = @ + (LastSequenceID - FirstSequenceID)]

\* A long session, in one step: the layer above has sent on substream 0 of
\* a peer until the next sequence id is the last one, and the peer's
\* acknowledgement of the packet before it arrives
LongSession ==
    \E address \in DOMAIN clients :
        /\ Listening(address)
        /\ HasSubstream(clients[address], 0)
        /\ reliableSubstream(clients[address], 0).outgoingSequenceID = FirstSequenceID
        /\ reliableSubstream(clients[address], 0).cipher.pos = 0
        /\ Becomes("handleSocketMessage", address,
               Signed([ClientHeader(address, "DATA", {"ACK"}) EXCEPT
                   !.sequenceID = LastSequenceID - 1]),
               Standard(IssuedAt),
               handleSocketMessage(
                   [World EXCEPT !.clients[address].reliableSubstreams[1] = Worn(@)],
                   address,
                   Signed([ClientHeader(address, "DATA", {"ACK"}) EXCEPT
                       !.sequenceID = LastSequenceID - 1]),
                   Standard(IssuedAt)))

\* The layer above sends reliable data on substream 0 while the counter of
\* the substream wraps
ServerSendWrapped ==
    \E address \in DOMAIN clients, payload \in SendPayloads :
        /\ Running
        /\ HasSubstream(clients[address], 0)
        /\ U16(reliableSubstream(clients[address], 0).outgoingSequenceID + 1)
               <= MaxOutgoing
        /\ Becomes("Send", address,
                   ServerPacket(clients[address], "DATA", {"RELIABLE", "NEEDS_ACK"},
                                0, payload),
                   0,
                   Send(World, ServerPacket(clients[address], "DATA",
                                            {"RELIABLE", "NEEDS_ACK"}, 0, payload)))

\* Aggregate acknowledgements of the packets sent around the wrap, in both
\* formats, with and without an additional id
ReceiveWrappedAggregate ==
    \E address \in Addresses, base \in {LastSequenceID, 0},
       additional \in {<<>>, <<1>>}, newFormat \in BOOLEAN :
        /\ Listening(address)
        /\ Receive(address,
                   IF newFormat THEN NewAggregate(address, 0, base, additional)
                   ELSE OldAggregate(address, 0, base, additional),
                   Standard(IssuedAt))

\* The layer above sends an acknowledgement of reliable DATA of its own
ServerSendAcknowledgement ==
    \E address \in DOMAIN clients, flag \in {"ACK", "MULTI_ACK"} :
        /\ Running
        /\ HasSubstream(clients[address], 0)
        /\ Becomes("Send", address,
                   ServerPacket(clients[address], "DATA", {"RELIABLE", flag}, 0,
                                <<80>>),
                   0,
                   Send(World,
                        ServerPacket(clients[address], "DATA",
                                     {"RELIABLE", flag}, 0, <<80>>)))

\* The payloads the layer above sends fragment by fragment: two fragments, and
\* more fragments than a fragment id counts
LongPayloads ==
    {SendPayload(n) : n \in {FragmentSize + 1, 256 * FragmentSize + 1}}

\* Send of caller c, up to its loop: data, fragments and fragmentID are set
SendBegins(c, address, payload) ==
    /\ Running
    /\ senders[c].pc = "Send"
    /\ CanSend(clients[address],
               ServerPacket(clients[address], "DATA", {"RELIABLE", "NEEDS_ACK"},
                            0, payload))
    /\ senders' = [senders EXCEPT ![c] =
           [pc         |-> "loop",
            packet     |-> ServerPacket(clients[address], "DATA",
                                        {"RELIABLE", "NEEDS_ACK"}, 0, payload),
            data       |-> payload,
            fragmentID |-> 1,
            fragments  |-> Len(payload) \div FragmentSize,
            i          |-> 0]]
    /\ last' = [op |-> "SendBegin", address |-> address,
                packet |-> NewPRUDPPacket(PRUDPVersion, address),
                serverTime |-> 0]
    /\ oplog' = <<>>
    /\ UNCHANGED <<IsSecureServer, reader, senderFrags, clients, panicked, hung,
                   peers, registry, workers, idle, eventHandlers, tasks>>

\* One caller sends the long payloads
SendBegin ==
    \E address \in DOMAIN clients, payload \in LongPayloads :
        SendBegins(1, address, payload)

\* The payloads callers send at the same time: one fragment, and two
ShortPayloads == {SendPayload(n) : n \in {1, FragmentSize + 1}}

\* Any caller sends, while another may be in its loop
SendBeginConcurrently ==
    \E c \in Senders, address \in DOMAIN clients, payload \in ShortPayloads :
        SendBegins(c, address, payload)

\* The state after an iteration of the loop of Send of caller c
SendIterated(c, loop) ==
    /\ senders' = [senders EXCEPT ![c] =
           [pc         |-> IF senders[c].i < senders[c].fragments THEN "loop"
                           ELSE "Send",
            packet     |-> loop.packet,
            data       |-> loop.data,
            fragmentID |-> loop.fragmentID,
            fragments  |-> senders[c].fragments,
            i          |-> senders[c].i + 1]]
    /\ clients' = loop.st.clients
    /\ oplog' = loop.st.oplog
    /\ panicked' = loop.st.panicked
    /\ hung' = loop.st.hung
    /\ last' = [last EXCEPT !.op = "sendPacket"]
    /\ UNCHANGED <<IsSecureServer, reader, senderFrags, peers, registry, workers, idle,
                   eventHandlers, tasks>>

\* One iteration of the loop of Send: i <= fragments
SendStep ==
    \E c \in Senders :
        /\ Running
        /\ senders[c].pc = "loop"
        /\ SendIterated(c,
               SendIteration(Looping(Sending(World, senders[c].packet),
                                     senders[c].data, senders[c].fragmentID)))

Next ==
    \/ ReceiveSyn
    \/ ReceiveConnect
    \/ ReceiveReliableData
    \/ ReceiveUnreliableData
    \/ ReceivePing
    \/ ReceiveDisconnect
    \/ ReceiveAcknowledgment

Spec == Init /\ [][Next]_vars

\* A client connects once: no registered peer has its substreams yet
ConnectOnce ==
    /\ \A address \in DOMAIN clients : clients[address].reliableSubstreams = <<>>
    /\ ReceiveConnect

\* The send path: connected peers, the layer above sending, the heartbeat
\* and the acknowledgements that come back
SendNext ==
    \/ ReceiveConnect
    \/ ServerSend
    \/ HeartbeatPing
    \/ ReceiveAcknowledgment
    \/ ReceiveMultiAcknowledgment

SendSpec == Init /\ [][SendNext]_vars

\* The packets the server sends of its own or in reply, and the
\* acknowledgements that take packets off the schedulers
ScheduleNext ==
    \/ ReceiveSyn
    \/ ConnectOnce
    \/ ReceivePing
    \/ ServerSend
    \/ HeartbeatPing
    \/ ReceiveAcknowledgment
    \/ ReceiveMultiAcknowledgment

ScheduleSpec == Init /\ [][ScheduleNext]_vars

\* The aggregate acknowledgements of what the layer above sent, in both
\* formats
AcknowledgeNext ==
    \/ ConnectOnce
    \/ ServerSend
    \/ ReceiveNewAggregate
    \/ ReceiveOldAggregate

AcknowledgeSpec == Init /\ [][AcknowledgeNext]_vars

\* Aggregate acknowledgements whose payload is cut short or declares more
\* than it carries, of what the layer above sent
PayloadNext ==
    \/ ConnectOnce
    \/ ServerSend
    \/ ReceiveOldPayload
    \/ ReceiveNewDeclared

PayloadSpec == Init /\ [][PayloadNext]_vars

\* The heartbeat: datagrams of peers that are not connected, the clock and
\* the timers
HeartbeatNext ==
    \/ ReceiveNoPackets
    \/ ReceiveSyn
    \/ ReceivePing
    \/ ReceiveUnreliableData
    \/ ReceiveDisconnect
    \/ HeartbeatPing
    \/ Tick
    \/ HeartbeatExpire

\* The clock runs and a timer that is due fires
HeartbeatSpec ==
    Init /\ [][HeartbeatNext]_vars /\ WF_vars(Tick) /\ WF_vars(HeartbeatExpire)

\* Retransmission: the layer above sends, acknowledgements come back or
\* not, and the retransmit timers fire
RetransmitNext ==
    \/ ConnectOnce
    \/ ServerSend
    \/ ReceiveAcknowledgment
    \/ RetransmitAny

\* The retransmit timer of a packet that stays scheduled fires
RetransmitSpec ==
    /\ Init
    /\ [][RetransmitNext]_vars
    /\ \A address \in Addresses, substreamID \in SubstreamIDs,
          sequenceID \in OutgoingIDs :
           WF_vars(Retransmit(address, substreamID, sequenceID))

\* Sending: packets of every kind leave through sendPacket, from the layer
\* above, from the heartbeat and as acknowledgements of what arrives
EncryptNext ==
    \/ ConnectOnce
    \/ ServerSend
    \/ ServerSendAcknowledgement
    \/ HeartbeatPing
    \/ ReceivePing
    \/ ReceiveDisconnect

EncryptSpec == Init /\ [][EncryptNext]_vars

\* Packets of every kind arrive while the clock runs and timers fire
TimedNext ==
    \/ ReceiveSyn
    \/ ConnectOnce
    \/ ReceivePing
    \/ ReceiveUnreliableData
    \/ ReceiveAcknowledgment
    \/ ReceiveMultiAcknowledgment
    \/ Tick
    \/ HeartbeatExpire

TimedSpec == Init /\ [][TimedNext]_vars

\* Reading: a stream over some data is read by any of the reads, one after
\* another
StreamInit ==
    /\ IsSecureServer = FALSE
    /\ senderFrags = [i \in 1..MaxSeq |-> 0]
    /\ clients = EmptyMap
    /\ panicked = FALSE
    /\ hung = FALSE
    /\ last = [op |-> "NewPRUDPServer", address |-> <<>>,
               packet |-> NewPRUDPPacket(PRUDPVersion, <<>>), serverTime |-> 0]
    /\ oplog = <<>>
    /\ peers = <<>>
    /\ registry = EmptyMap
    /\ workers = [w \in Workers |-> Idle]
    /\ senders = [c \in Senders |-> NotSending]
    /\ idle = EmptyMap
    /\ eventHandlers = <<>>
    /\ tasks = <<>>
    /\ reader \in {NewReader(data) : data \in StreamData}

StreamNext ==
    \/ ReadPrimitiveAny
    \/ ReadBufferNext
    \/ ReadQBufferNext
    \/ ReadStringNext

StreamSpec == StreamInit /\ [][StreamNext]_vars

\* Reliable data arrives, in any order, while no goroutine of an earlier
\* arrival is left
ReceiveReliableForHandlers ==
    /\ tasks = <<>>
    /\ ReceiveReliableData

\* Delivery: the layer above registers its handler of reliable data, a peer
\* connects and sends, and the goroutines of the handlers run
DeliverNext ==
    \/ OnReliableData
    \/ ConnectOnce
    \/ ReceiveReliableForHandlers
    \/ HandlerRunsAny

DeliverSpec == Init /\ [][DeliverNext]_vars

\* Datagrams of one packet and of several: peers connect, ping, send and
\* leave
DatagramNext ==
    \/ ConnectOnce
    \/ ReceivePing
    \/ ReceiveDisconnect
    \/ ReceiveDatagram

DatagramSpec == Init /\ [][DatagramNext]_vars

\* The wrap of the outgoing sequence ids: a long session, the packets sent
\* around the wrap and their aggregate acknowledgements
WrapNext ==
    \/ ConnectOnce
    \/ LongSession
    \/ ServerSendWrapped
    \/ ReceiveWrappedAggregate

WrapSpec == Init /\ [][WrapNext]_vars

\* Acknowledgements of every packet type, for addresses without a peer and
\* for connected peers with packets in flight
FlaggedNext ==
    \/ ConnectOnce
    \/ ServerSend
    \/ ReceiveFlagged

FlaggedSpec == Init /\ [][FlaggedNext]_vars

\* Events: the layer above registers handlers, datagrams that make the
\* server emit arrive, and the goroutines of the handlers run
EmitNext ==
    \/ OnAny
    \/ ReceiveWhileHandlersRun
    \/ HandlerRunsAny

EmitSpec == Init /\ [][EmitNext]_vars

\* The handshake: SYN, and CONNECT with every modelled ticket and signature
ConnectNext ==
    \/ ReceiveSyn
    \/ ReceiveConnectAttempt

ConnectSpec == Init /\ [][ConnectNext]_vars

\* The peers connect before the layer above sends
ConnectBeforeSend ==
    /\ \A c \in Senders : senders[c] = NotSending
    /\ ReceiveConnect

\* Send, iteration by iteration, to connected peers
FragmentNext ==
    \/ ConnectBeforeSend
    \/ SendBegin
    \/ SendStep

FragmentSpec == Init /\ [][FragmentNext]_vars

\* Callers of Send at the same time, iteration by iteration
ConcurrentNext ==
    \/ ConnectBeforeSend
    \/ SendBeginConcurrently
    \/ SendStep

ConcurrentSpec == Init /\ [][ConcurrentNext]_vars

\* The workers of Listen, statement by statement
WorkerNext ==
    \/ WorkerRead
    \/ WorkerGet
    \/ WorkerNewClient
    \/ WorkerSet
    \/ WorkerResetHeartbeat
    \/ WorkerHandle

WorkerSpec == Init /\ [][WorkerNext]_vars

----------------------------------------------------------------------------
(* What the last handler did                                               *)

\* A worker handled a packet in the last step
\* QBuffers: some bytes of each length around the ends of the length field
QBufferLengths == 0..MaxBody \cup {255, 256, 257, 65534, 65535, 65536, 65537}

QBufferOf(length, first) == [i \in 1..length |-> (first + i) % 256]

QBuffers == {QBufferOf(length, first) : length \in QBufferLengths, first \in {0, 1}}

\* What is written after the QBuffer
QBufferRests == {<<>>, <<7>>, <<1, 0, 9>>}

\* A QBuffer to write: its bytes are told by their number and the first of
\* them, and what was read back by what the claims ask of it
QBufferReader(qb, rest) ==
    [read |-> "NewQBuffer", lengthSize |-> 2, length |-> Len(qb),
     first |-> IF qb = <<>> THEN 0 ELSE qb[1] - 1, rest |-> rest,
     written |-> 0, err |-> FALSE, equal |-> FALSE, offset |-> 0]

\* The QBuffer of the reader
QBufferIn(r) == QBufferOf(r.length, r.first)

\* The stream after qb.WriteTo(writable) on an empty stream and a write of
\* what follows it
Written(r) == NewStreamIn(Write(WriteTo(QBufferIn(r), <<>>), r.rest))

QBufferInit ==
    /\ IsSecureServer = FALSE
    /\ senderFrags = [i \in 1..MaxSeq |-> 0]
    /\ clients = EmptyMap
    /\ panicked = FALSE
    /\ hung = FALSE
    /\ last = [op |-> "NewPRUDPServer", address |-> <<>>,
               packet |-> NewPRUDPPacket(PRUDPVersion, <<>>), serverTime |-> 0]
    /\ oplog = <<>>
    /\ peers = <<>>
    /\ registry = EmptyMap
    /\ workers = [w \in Workers |-> Idle]
    /\ senders = [c \in Senders |-> NotSending]
    /\ idle = EmptyMap
    /\ eventHandlers = <<>>
    /\ tasks = <<>>
    /\ reader \in {QBufferReader(qb, rest) : qb \in QBuffers, rest \in QBufferRests}

\* qb.WriteTo(writable): the bytes the QBuffer takes in the stream
QBufferWriteTo ==
    /\ reader.read = "NewQBuffer"
    /\ reader' = [reader EXCEPT
                    !.read = "WriteTo",
                    !.written = Len(WriteTo(QBufferIn(reader), <<>>))]
    /\ UNCHANGED <<IsSecureServer, senderFrags, clients, panicked, hung, last,
                   oplog, peers, registry, workers, senders, idle,
                   eventHandlers, tasks>>

\* ExtractFrom(readable) of a new QBuffer over what was written, and Equals
\* of it and the one written
QBufferExtractFrom ==
    /\ reader.read = "WriteTo"
    /\ reader' = [reader EXCEPT
                    !.read = "ExtractFrom",
                    !.err = ExtractFrom(<<>>, Written(reader)).err,
                    !.equal = Equals(ExtractFrom(<<>>, Written(reader)).qb,
                                     QBufferIn(reader)),
                    !.offset = ExtractFrom(<<>>, Written(reader)).stream.offset]
    /\ UNCHANGED <<IsSecureServer, senderFrags, clients, panicked, hung, last,
                   oplog, peers, registry, workers, senders, idle,
                   eventHandlers, tasks>>

QBufferNext ==
    \/ QBufferWriteTo
    \/ QBufferExtractFrom

QBufferSpec == QBufferInit /\ [][QBufferNext]_vars

Handled == last.op = "handleSocketMessage"

\* The positions in oplog of the effects of one kind
EffectAt(op) == {i \in DOMAIN oplog : oplog[i].op = op}

\* The positions in oplog of the datagrams written to the socket
SentAt == EffectAt("sendRaw")

\* The positions in oplog of the acknowledgements written to the socket
Acknowledgements == {i \in SentAt : HasFlag(oplog[i].packet, "ACK")}

\* The positions in oplog of the emissions of an event
EmittedAt(name) == {i \in EffectAt("emit") : oplog[i].name = name}

\* A packet that asks for an acknowledgement and is none itself
AsksAck(packet) ==
    /\ HasFlag(packet, "NEEDS_ACK")
    /\ ~HasFlag(packet, "ACK")
    /\ ~HasFlag(packet, "MULTI_ACK")

\* The last handler received a packet of the type that is no acknowledgement
HandledType(type) ==
    /\ Handled
    /\ last.packet.type = type
    /\ ~HasFlag(last.packet, "ACK")
    /\ ~HasFlag(last.packet, "MULTI_ACK")

\* The last handler received a reliable DATA packet
HandledReliable == HandledType("DATA") /\ HasFlag(last.packet, "RELIABLE")

\* The endpoints of a reply are those of the packet, swapped
Swapped(reply, packet) ==
    /\ reply.sourceStreamType = packet.destinationStreamType
    /\ reply.sourcePort = packet.destinationPort
    /\ reply.destinationStreamType = packet.sourceStreamType
    /\ reply.destinationPort = packet.sourcePort

\* The messages the sender completes with its packets sequenceID..n, in order,
\* pending being the fragments of the message it is in the middle of
RECURSIVE SenderMessages(_, _, _)
SenderMessages(sequenceID, n, pending) ==
    IF sequenceID > n THEN <<>>
    ELSE IF senderFrags[sequenceID] = 0
    THEN <<pending \o ClearPayload(sequenceID)>>
         \o SenderMessages(sequenceID + 1, n, <<>>)
    ELSE SenderMessages(sequenceID + 1, n, pending \o ClearPayload(sequenceID))

\* The peers whose reliable payloads the server deciphers with the key the
\* client enciphers them with, and their substreams
Substreams ==
    UNION {{<<address, i>> : i \in DOMAIN clients[address].reliableSubstreams} :
              address \in {a \in DOMAIN clients : clients[a].sessionKey = ClientKey}}

SubstreamOf(s) == clients[s[1]].reliableSubstreams[s[2]]

----------------------------------------------------------------------------
(* Reliable delivery                                                       *)

\* C1: on every reliable substream, whatever the order in which the packets
\* arrived and however often, the reliable-data emissions so far are the
\* messages the sender completed with the packets the substream has gone
\* through, in the sender's order.
C1_EmissionsAreSenderMessages ==
    \A s \in Substreams :
        SubstreamOf(s).delivered =
            SenderMessages(FirstSequenceID, SubstreamOf(s).incomingSequenceID - 1, <<>>)

\* The sender cuts its MaxSeq packets into one message: fragment ids 1, 2, ...
\* and 0 for the last
OneMessage == [i \in 1..MaxSeq |-> IF i = MaxSeq THEN 0 ELSE i]

\* The payloads of the packets sequenceID..MaxSeq, concatenated
RECURSIVE Concatenation(_)
Concatenation(sequenceID) ==
    IF sequenceID > MaxSeq THEN <<>>
    ELSE ClearPayload(sequenceID) \o Concatenation(sequenceID + 1)

\* C2: once every fragment of a message of several fragments was received,
\* in whatever order, exactly one reliable-data event was emitted for it, it
\* carries the fragments' payloads concatenated in sequence-id order, and the
\* accumulator of the substream is empty.
C2_FragmentsMakeOneMessage ==
    \A s \in Substreams :
        (senderFrags = OneMessage /\ SubstreamOf(s).incomingSequenceID = MaxSeq + 1)
            => /\ SubstreamOf(s).delivered = <<Concatenation(FirstSequenceID)>>
               /\ SubstreamOf(s).fragmentedPayload = <<>>

----------------------------------------------------------------------------
(* Acknowledgement                                                         *)

\* C3: a received DATA (reliable or not), PING or DISCONNECT packet that asks
\* for an acknowledgement is answered with exactly one acknowledgement.
C3_AcknowledgedOncePerReceipt ==
    (/\ Handled
     /\ AsksAck(last.packet)
     /\ last.packet.type \in {"DATA", "PING", "DISCONNECT"})
        => Cardinality({oplog[i].data : i \in Acknowledgements}) = 1

\* The acknowledgement mirrors the packet
Mirrors(ack, packet) ==
    /\ ack.type = packet.type
    /\ HasFlag(ack, "ACK")
    /\ ack.sequenceID = packet.sequenceID
    /\ ack.fragmentID = packet.fragmentID
    /\ ack.substreamID = packet.substreamID
    /\ Swapped(ack, packet)

\* The outgoing sequence counters of a peer
OutgoingCounters(client) ==
    <<client.outgoingUnreliableSequenceID, client.outgoingPingSequenceID,
      [i \in DOMAIN client.reliableSubstreams |->
          client.reliableSubstreams[i].outgoingSequenceID]>>

\* The peer of an address as a handler finds it: registered, or new
PeerOf(address) ==
    IF MapHas(clients, address) THEN clients[address] ELSE NewPRUDPClient(address)

\* A step in which a handler acknowledged the packet it received
Acknowledges ==
    /\ last'.op = "handleSocketMessage"
    /\ last'.packet.type \in {"DATA", "PING", "DISCONNECT"}
    /\ \E i \in DOMAIN oplog' :
           oplog'[i].op = "sendRaw" /\ HasFlag(oplog'[i].packet, "ACK")

\* C4: every acknowledgement a handler sends for a packet has the packet's
\* type, the ACK flag, the packet's sequence, fragment and substream ids and
\* the packet's endpoints swapped, also after sendPacket, and sending it
\* advances no outgoing sequence counter of the peer.
C4_AcknowledgementMirrorsPacket ==
    [][Acknowledges =>
          /\ \A i \in DOMAIN oplog' :
                 oplog'[i].op = "sendRaw" => Mirrors(oplog'[i].packet, last'.packet)
          /\ MapHas(clients', last'.address) =>
                 OutgoingCounters(clients'[last'.address])
                     = OutgoingCounters(PeerOf(last'.address))]_vars

\* A PING that asks for an acknowledgement was acknowledged
C4_PingAcknowledged ==
    /\ HandledType("PING")
    /\ AsksAck(last.packet)
    /\ Acknowledgements # {}
    /\ MapHas(clients, last.address)

\* C5: the acknowledgement of a reliable DATA packet that asks for one is sent
\* before the packet is handed to the substream and before any reliable-data
\* event the packet causes.
C5_AcknowledgedBeforeDelivery ==
    (HandledReliable /\ AsksAck(last.packet))
        => /\ Acknowledgements # {}
           /\ \A i \in EffectAt("Update") \cup EmittedAt("reliable-data") :
                  \A j \in Acknowledgements : j < i

\* A reliable DATA packet was acknowledged and caused a reliable-data event
C5_AcknowledgedAndDelivered ==
    /\ HandledReliable
    /\ AsksAck(last.packet)
    /\ Acknowledgements # {}
    /\ EmittedAt("reliable-data") # {}

\* C6: a DISCONNECT that asks for an acknowledgement is answered with three
\* datagrams, all of them the same acknowledgement byte for byte, and none of
\* them is given to a retransmission scheduler.
C6_DisconnectAcknowledgedThrice ==
    (HandledType("DISCONNECT") /\ AsksAck(last.packet))
        => /\ Cardinality(SentAt) = 3
           /\ Acknowledgements = SentAt
           /\ \A i, j \in SentAt :
                  oplog[i].data = oplog[j].data /\ oplog[i].packet = oplog[j].packet
           /\ EffectAt("AddPacket") = {}

\* A DISCONNECT that asks for an acknowledgement was answered
C6_DisconnectAnswered ==
    /\ HandledType("DISCONNECT")
    /\ AsksAck(last.packet)
    /\ Cardinality(Acknowledgements) = 3

\* C7: on every DISCONNECT the peer is cleaned up and taken out of the
\* registry, the disconnect event is emitted once with the packet, and the
\* cleanup and the removal come before the emission, whose handlers run on
\* their own.
C7_DisconnectCleansUpBeforeEmit ==
    HandledType("DISCONNECT")
        => /\ ~panicked
           /\ Cardinality(EffectAt("cleanup")) = 1
           /\ Cardinality(EffectAt("Delete")) = 1
           /\ Cardinality(EmittedAt("disconnect")) = 1
           /\ EmittedAt("disconnect") = EffectAt("emit")
           /\ \A e \in EmittedAt("disconnect") :
                  /\ oplog[e].packet = last.packet
                  /\ \A c \in EffectAt("cleanup") \cup EffectAt("Delete") : c < e
           /\ ~MapHas(clients, last.address)

\* A DISCONNECT that asks for no acknowledgement was handled
C7_SilentDisconnect ==
    /\ HandledType("DISCONNECT")
    /\ ~HasFlag(last.packet, "NEEDS_ACK")
    /\ EmittedAt("disconnect") # {}
    /\ SentAt = {}

----------------------------------------------------------------------------
(* The handshake                                                           *)

\* C8: every SYN is answered with one datagram, a SYN with the flags ACK and
\* HAS_SIZE, the SYN's endpoints swapped and the connection signature of the
\* peer's address; the peer, reset, holds the same signature and the SYN's
\* endpoints.
C8_SynAnswered ==
    HandledType("SYN")
        => /\ Cardinality(SentAt) = 1
           /\ \A i \in SentAt :
                  /\ oplog[i].address = last.address
                  /\ oplog[i].packet.type = "SYN"
                  /\ oplog[i].packet.flags = {"ACK", "HAS_SIZE"}
                  /\ Swapped(oplog[i].packet, last.packet)
                  /\ oplog[i].packet.connectionSignature =
                         calculateConnectionSignature(last.packet.version, last.address)
           /\ MapHas(clients, last.address)
           /\ clients[last.address].clientConnectionSignature =
                  calculateConnectionSignature(last.packet.version, last.address)
           /\ clients[last.address].reliableSubstreams = <<>>
           /\ clients[last.address].sourceStreamType = last.packet.sourceStreamType
           /\ clients[last.address].sourcePort = last.packet.sourcePort
           /\ clients[last.address].destinationStreamType =
                  last.packet.destinationStreamType
           /\ clients[last.address].destinationPort = last.packet.destinationPort

\* A SYN was answered
C8_SynReplied ==
    /\ HandledType("SYN")
    /\ \E i \in SentAt : oplog[i].packet.connectionSignature # <<>>
    /\ clients[last.address].clientConnectionSignature # <<>>

\* C9: the reply to a CONNECT is a CONNECT with the flags ACK and HAS_SIZE,
\* session id 0, sequence id 1, a connection signature of zeros as long as
\* the one the server computes, and the CONNECT's endpoints swapped; a v1
\* reply repeats the CONNECT's supported functions, minor version and maximum
\* substream id; the reply of a server that is not secure has no payload.
C9_ConnectAnswered ==
    HandledType("CONNECT")
        => /\ Cardinality(SentAt) = 1
           /\ \A i \in SentAt :
                  /\ oplog[i].packet.type = "CONNECT"
                  /\ oplog[i].packet.flags = {"ACK", "HAS_SIZE"}
                  /\ oplog[i].packet.sessionID = 0
                  /\ oplog[i].packet.sequenceID = 1
                  /\ oplog[i].packet.connectionSignature =
                         Zeros(Len(calculateConnectionSignature(last.packet.version,
                                                                last.address)))
                  /\ Swapped(oplog[i].packet, last.packet)
                  /\ last.packet.version = 1 =>
                         /\ oplog[i].packet.supportedFunctions =
                                last.packet.supportedFunctions
                         /\ oplog[i].packet.minorVersion = last.packet.minorVersion
                         /\ oplog[i].packet.maximumSubstreamID =
                                last.packet.maximumSubstreamID
                  /\ ~IsSecureServer => oplog[i].packet.payload = <<>>

\* A v1 CONNECT was answered by a server that is not secure
C9_ConnectReplied ==
    /\ HandledType("CONNECT")
    /\ ~IsSecureServer
    /\ last.packet.version = 1
    /\ last.packet.maximumSubstreamID = 1
    /\ \E i \in SentAt : oplog[i].packet.maximumSubstreamID = 1

\* The check values of the modelled tickets and the values one above them
NextCheckValue(checkValue) ==
    CASE checkValue = <<0, 0, 0, 0>> -> <<1, 0, 0, 0>>
      [] checkValue = <<239, 190, 173, 222>> -> <<240, 190, 173, 222>>
      [] checkValue = <<255, 255, 255, 255>> -> <<0, 0, 0, 0>>

\* The last handler received the CONNECT of a client whose ticket the server
\* issued, before the ticket's time limit, with the check value
HandledTicket(checkValue) ==
    /\ HandledType("CONNECT")
    /\ IsSecureServer
    /\ last.packet.payload = KerberosPayload(kerberosPassword, checkValue)
    /\ last.serverTime <= Standard(IssuedAt) + 120

\* C10: on a secure server the reply to a CONNECT with a valid ticket and
\* check value c has the 8 bytes of 4 and of c + 1 modulo 2^32 in 32 bits,
\* little-endian, as payload, and the peer holds the session key of the
\* ticket and the user PID of the request.
C10_ConnectResponse ==
    \A c \in CheckValues :
        HandledTicket(c)
            => /\ \A i \in SentAt :
                      oplog[i].packet.payload = <<4, 0, 0, 0>> \o NextCheckValue(c)
               /\ SentAt # {}
               /\ clients[last.address].sessionKey = ClientSessionKey
               /\ clients[last.address].pid = <<210, 4, 0, 0>>

\* A ticket with the largest check value was answered with 0
C10_CheckValueWraps ==
    /\ HandledTicket(<<255, 255, 255, 255>>)
    /\ \E i \in SentAt : oplog[i].packet.payload = <<4, 0, 0, 0, 0, 0, 0, 0>>

----------------------------------------------------------------------------
(* The handshake: tickets, handshake state, connection signatures          *)

\* A step in which a worker handled a packet of the type, no acknowledgement
Handles(type) ==
    /\ last'.op = "handleSocketMessage"
    /\ last'.packet.type = type
    /\ ~HasFlag(last'.packet, "ACK")
    /\ ~HasFlag(last'.packet, "MULTI_ACK")

\* A step in which the handler wrote nothing to the socket and emitted nothing
Silent ==
    \A i \in DOMAIN oplog' : oplog'[i].op \notin {"sendRaw", "emit"}

\* A step in which a secure server handled a CONNECT whose payload fails
\* readKerberosTicket
HandlesFailedTicket ==
    /\ Handles("CONNECT")
    /\ IsSecureServer
    /\ readKerberosTicket(last'.packet.payload, last'.serverTime).err

\* C11: on a secure server a CONNECT whose payload fails the Kerberos
\* validation is not completed: nothing is sent, no connect event is emitted,
\* and the session key and the PID of the peer stay as they were.
C11_FailedTicketNotCompleted ==
    [][HandlesFailedTicket =>
          /\ Silent
          /\ MapHas(clients', last'.address)
          /\ clients'[last'.address].sessionKey = PeerOf(last'.address).sessionKey
          /\ clients'[last'.address].pid = PeerOf(last'.address).pid]_vars

\* The handshake state of a peer, read off its fields: handleSyn stores the
\* connection signature, handleConnect creates the substreams
Syned(client) == client.clientConnectionSignature # <<>>

Connected(client) == client.reliableSubstreams # <<>>

\* A step in which a worker handled a packet the handshake state of its peer
\* does not expect: DATA, PING or an acknowledgement before CONNECT, or
\* CONNECT before SYN
HandlesUnexpected ==
    /\ last'.op = "handleSocketMessage"
    /\ ~Connected(PeerOf(last'.address))
    /\ \/ HasFlag(last'.packet, "ACK")
       \/ HasFlag(last'.packet, "MULTI_ACK")
       \/ last'.packet.type \in {"DATA", "PING"}
       \/ last'.packet.type = "CONNECT" /\ ~Syned(PeerOf(last'.address))

\* C12: a packet whose type the handshake state of its peer does not expect is
\* dropped: nothing is sent, nothing is emitted, the worker goes on, and the
\* peer stays registered as it was, but for its heartbeat, which is reset.
C12_UnexpectedPacketDropped ==
    [][HandlesUnexpected =>
          /\ Silent
          /\ ~panicked'
          /\ MapHas(clients', last'.address)
          /\ clients'[last'.address]
                 = [PeerOf(last'.address) EXCEPT !.heartbeat = "running"]]_vars

\* The last handler received a CONNECT on a secure server, with the payload,
\* a number of seconds after the ticket in it was issued
HandledTicketAt(payload, ages) ==
    /\ HandledType("CONNECT")
    /\ IsSecureServer
    /\ last.packet.payload = payload
    /\ last.serverTime - Standard(IssuedAt) \in ages

\* The errors the last handler printed, in order
Printed == [i \in 1..Cardinality(EffectAt("Println")) |->
               oplog[CHOOSE j \in EffectAt("Println") :
                         Cardinality({k \in EffectAt("Println") : k <= j}) = i].name]

\* C13: a ticket issued at T is accepted when the server reads it at T up to
\* T + 120 s and is rejected as expired from T + 121 s on; a ticket whose MAC
\* fails is rejected for its MAC also when it has expired, and an expired
\* ticket is rejected as expired also when its request block does not decrypt.
C13_TicketTimeLimit ==
    /\ HandledTicketAt(GoodTicket, 0..120)
           => /\ Printed = <<>>
              /\ clients[last.address].sessionKey = ClientSessionKey
    /\ HandledTicketAt(GoodTicket, 121..600)
           => Printed = <<"Kerberos ticket expired">>
    /\ HandledTicketAt(ForeignTicket, 0..600)
           => Printed = <<"KerberosTicketInternalData.Decrypt">>
    /\ HandledTicketAt(ForeignRequest, 121..600)
           => Printed = <<"Kerberos ticket expired">>
    /\ HandledTicketAt(ForeignRequest, 0..120)
           => Printed = <<"KerberosEncryption.Decrypt">>

\* A ticket read 120 s after it was issued was accepted
C13_AcceptedAtTimeLimit ==
    /\ HandledTicketAt(GoodTicket, {120})
    /\ Printed = <<>>
    /\ clients[last.address].pid = <<210, 4, 0, 0>>

\* A step in which a worker handled the CONNECT of a peer that had its SYN
\* answered, with a connection signature other than the one of the SYN-ACK
HandlesOtherSignature ==
    /\ Handles("CONNECT")
    /\ Syned(PeerOf(last'.address))
    /\ last'.packet.connectionSignature
           # PeerOf(last'.address).clientConnectionSignature

\* C14: a CONNECT that carries another connection signature than the server
\* sent to the peer in its SYN-ACK is not accepted: no CONNECT-ACK is sent, no
\* connect event is emitted and no substreams are created.
C14_ConnectionSignatureVerified ==
    [][HandlesOtherSignature =>
          /\ Silent
          /\ MapHas(clients', last'.address)
          /\ clients'[last'.address].reliableSubstreams
                 = PeerOf(last'.address).reliableSubstreams]_vars

----------------------------------------------------------------------------
(* The workers                                                             *)

\* The PRUDPClient objects of an address whose heartbeat timer runs
Alive(address) ==
    {id \in DOMAIN peers :
        peers[id].address = address /\ peers[id].heartbeat = "running"}

\* C15: with several workers on the socket, at most one peer object of an
\* address is alive at a time: two workers that handle first datagrams of the
\* same new address do not both create a peer.
C15_OnePeerPerAddress ==
    \A address \in Addresses : Cardinality(Alive(address)) <= 1

\* A worker inside processPacket, after its first statement
Processing(w) == workers[w].pc = "handle"

\* C16: no two workers are inside processPacket for packets of the same peer
\* at the same time.
C16_ProcessingExclusive ==
    \A w1, w2 \in Workers :
        Processing(w1) /\ Processing(w2) /\ workers[w1].client = workers[w2].client
            => w1 = w2

----------------------------------------------------------------------------
(* The send path                                                           *)

\* n / d, rounded up
Ceiling(n, d) == (n + d - 1) \div d

\* The layer above sent a packet in the last step, in one piece
Sent == last.op = "Send" /\ ~panicked

\* C17: Send writes ceil(len(P) / F) packets for a payload P and the fragment
\* size F; a payload of at most F bytes goes out as one packet with fragment
\* id 0, and no empty packet follows a payload that is a multiple of F.
C17_SendsCeilingPackets ==
    Sent => /\ Cardinality(SentAt)
                   = Ceiling(Len(last.packet.payload), FragmentSize)
            /\ Len(last.packet.payload) <= FragmentSize
                   => \A i \in SentAt : oplog[i].packet.fragmentID = 0

\* Caller c of Send has sent packets of its payload, the last one in the
\* last step
Fragmenting(c) ==
    /\ last.op = "sendPacket"
    /\ ~panicked
    /\ senders[c].i >= 1

\* C18: of the packets of one Send, the i-th that is not the last has the
\* fragment id i and the last has the fragment id 0, so that no packet but
\* the last has the fragment id 0, whatever the number of fragments.
C18_FragmentIDsCount ==
    \A c \in Senders :
        Fragmenting(c)
            => \A k \in SentAt :
                   oplog[k].packet.fragmentID
                       = IF senders[c].i = senders[c].fragments + 1 THEN 0
                         ELSE senders[c].i

\* The counters a peer numbers its outgoing packets from
CounterNames(client) ==
    {<<"unreliable", 0>>, <<"ping", 0>>}
        \cup {<<"substream", i - 1>> : i \in DOMAIN client.reliableSubstreams}

Counter(client, name) ==
    IF name[1] = "unreliable" THEN client.outgoingUnreliableSequenceID
    ELSE IF name[1] = "ping" THEN client.outgoingPingSequenceID
    ELSE reliableSubstream(client, name[2]).outgoingSequenceID

\* The counter the sequence id of a packet is to come from
SequenceSource(packet) ==
    IF HasFlag(packet, "RELIABLE") THEN <<"substream", packet.substreamID>>
    ELSE IF packet.type = "DATA" THEN <<"unreliable", 0>>
    ELSE IF packet.type = "PING" THEN <<"ping", 0>>
    ELSE <<"none", 0>>

\* The counters of a peer the step changed
Advanced(address) ==
    {name \in CounterNames(PeerOf(address)) :
        Counter(clients'[address], name) # Counter(PeerOf(address), name)}

\* A step in which the server sent one packet of its own with sendPacket
SendsOnePacket ==
    /\ last'.op \in {"Send", "sendPing"}
    /\ ~panicked'
    /\ Cardinality({i \in DOMAIN oplog' : oplog'[i].op = "sendRaw"}) = 1

\* The sequence id on the wire is the one the rules give the packet
NumberedBySource(packet) ==
    packet.sequenceID
        = IF SequenceSource(packet)[1] = "none" THEN 0
          ELSE Counter(PeerOf(packet.sender), SequenceSource(packet))

\* The counters of the other peers are as they were
OtherPeersKeepCounters(address) ==
    \A other \in DOMAIN clients' \ {address} :
        MapHas(clients, other)
            /\ OutgoingCounters(clients'[other]) = OutgoingCounters(clients[other])

\* C19 as stated: sendPacket numbers a packet that is no acknowledgement from
\* the substream when it is reliable, else from the unreliable-data counter
\* when it is DATA, else from the ping counter when it is PING, else with 0;
\* exactly one counter advances per send and all the others are unchanged.
C19_ExactlyOneCounterAdvances ==
    [][SendsOnePacket =>
          \A i \in DOMAIN oplog' :
              oplog'[i].op = "sendRaw" =>
                  /\ NumberedBySource(oplog'[i].packet)
                  /\ Cardinality(Advanced(last'.address)) = 1
                  /\ OtherPeersKeepCounters(last'.address)]_vars

\* C19, amended: sendPacket numbers a packet that is no acknowledgement from
\* the substream when it is reliable, else from the unreliable-data counter
\* when it is DATA, else from the ping counter when it is PING, else with 0;
\* the counter the id came from advances by one and no other counter changes,
\* and no counter at all changes when the id is the 0 of the last rule.
C19_SourceCounterAdvances ==
    [][SendsOnePacket =>
          \A i \in DOMAIN oplog' :
              oplog'[i].op = "sendRaw" =>
                  /\ NumberedBySource(oplog'[i].packet)
                  /\ Advanced(last'.address)
                         = {SequenceSource(oplog'[i].packet)}
                               \ {<<"none", 0>>}
                  /\ \A name \in Advanced(last'.address) :
                         Counter(clients'[last'.address], name)
                             = U16(Counter(PeerOf(last'.address), name) + 1)
                  /\ OtherPeersKeepCounters(last'.address)]_vars

\* A packet that is neither reliable nor DATA nor PING went out with the
\* sequence id 0
C19_SentUnnumbered ==
    /\ Sent
    /\ Cardinality(SentAt) = 1
    /\ \A i \in SentAt :
           /\ SequenceSource(oplog[i].packet) = <<"none", 0>>
           /\ oplog[i].packet.sequenceID = 0

\* The packets in the retransmission schedulers of the registered peers
Scheduled ==
    UNION {UNION {{client.reliableSubstreams[i].ResendScheduler[sequenceID] :
                      sequenceID \in DOMAIN client.reliableSubstreams[i].ResendScheduler} :
                  i \in DOMAIN client.reliableSubstreams} :
           client \in {clients[address] : address \in DOMAIN clients}}

\* C20: in every reachable state every packet in a retransmission scheduler
\* has both RELIABLE and NEEDS_ACK; no acknowledgement, no reply of the
\* handshake (SYN-ACK, CONNECT-ACK) and no PING of the heartbeat is in one.
C20_SchedulerHoldsReliableNeedsAck ==
    \A packet \in Scheduled :
        /\ HasFlag(packet, "RELIABLE")
        /\ HasFlag(packet, "NEEDS_ACK")
        /\ ~HasFlag(packet, "ACK")
        /\ ~HasFlag(packet, "MULTI_ACK")
        /\ packet.type \notin {"SYN", "CONNECT", "PING"}

\* The server sent a PING of the heartbeat to a peer with a packet in a
\* scheduler
C20_PingSentWhileScheduled ==
    /\ last.op = "sendPing"
    /\ SentAt # {}
    /\ Scheduled # {}

\* A reliable DATA packet of the server that asks for an acknowledgement
ReliableNeedsAck(packet) ==
    /\ packet.type = "DATA"
    /\ HasFlag(packet, "RELIABLE")
    /\ HasFlag(packet, "NEEDS_ACK")

\* The positions in oplog' of the effects of one kind
EffectAfter(op) == {i \in DOMAIN oplog' : oplog'[i].op = op}

\* A step in which the layer above sent reliable DATA that asks for an
\* acknowledgement
SendsReliable ==
    /\ last'.op = "Send"
    /\ ~panicked'
    /\ ReliableNeedsAck(last'.packet)

\* C21: an outbound reliable DATA packet that needs an ACK gets its sequence
\* id, then its payload is encrypted, then it is signed over the encrypted
\* payload, then it is put in the scheduler of its substream, and only then
\* are its bytes written: the packet on the wire is the scheduled one.
C21_ScheduledBeforeWire ==
    [][SendsReliable =>
          \A i \in EffectAfter("sendRaw") :
              /\ \E j \in EffectAfter("AddPacket") :
                     j < i /\ oplog'[j].packet = oplog'[i].packet
              /\ oplog'[i].packet.signature
                     = calculateSignature(oplog'[i].packet,
                           PeerOf(last'.address).sessionKey,
                           PeerOf(last'.address).serverConnectionSignature)
              /\ Cardinality(EffectAfter("sendRaw")) = 1 =>
                     /\ oplog'[i].packet.sequenceID
                            = reliableSubstream(PeerOf(last'.address),
                                  last'.packet.substreamID).outgoingSequenceID
                     /\ oplog'[i].packet.payload
                            = Encrypt(reliableSubstream(PeerOf(last'.address),
                                          last'.packet.substreamID),
                                      last'.packet.payload).value
                     /\ MapHas(reliableSubstream(clients'[last'.address],
                                   last'.packet.substreamID).ResendScheduler,
                               oplog'[i].packet.sequenceID)]_vars

\* A reliable DATA packet went out encrypted, scheduled before it was written
C21_SentEncryptedAndScheduled ==
    /\ Sent
    /\ ReliableNeedsAck(last.packet)
    /\ Cardinality(SentAt) = 1
    /\ \A i \in SentAt :
           /\ oplog[i].packet.payload # last.packet.payload
           /\ \E j \in EffectAt("AddPacket") : j < i

----------------------------------------------------------------------------
(* Acknowledgements received                                               *)

\* The retransmission schedulers of the registered peers, by address and
\* substream
Schedulers ==
    [address \in DOMAIN clients |->
        [i \in DOMAIN clients[address].reliableSubstreams |->
            clients[address].reliableSubstreams[i].ResendScheduler]]

\* A step in which a worker handled an acknowledgement of the given kind
\* and came back from it
HandlesAcknowledgement(multi) ==
    /\ last'.op = "handleSocketMessage"
    /\ HasFlag(last'.packet, "ACK") \/ HasFlag(last'.packet, "MULTI_ACK")
    /\ HasFlag(last'.packet, "MULTI_ACK") = multi
    /\ ~panicked'
    /\ ~hung'

\* C22: a received packet with ACK and without MULTI_ACK takes the entry of
\* its sequence id, if there is one, out of the scheduler of the substream
\* of its substream id; every other entry of that scheduler and every other
\* scheduler is left as it was.
C22_AcknowledgementRemovesOne ==
    [][HandlesAcknowledgement(FALSE) =>
          Schedulers'
              = [Schedulers EXCEPT
                    ![last'.address][last'.packet.substreamID + 1] =
                        MapDelete(@, last'.packet.sequenceID)]]_vars

\* The acknowledgement of the first packet of substream 1 was handled, and
\* the second packet is still in the scheduler
C22_FirstAcknowledgedSecondKept ==
    /\ Handled
    /\ last.packet.flags = {"ACK"}
    /\ last.packet.substreamID = 1
    /\ ~panicked
    /\ MapHas(clients, last.address)
    /\ HasSubstream(clients[last.address], 1)
    /\ LET substream == reliableSubstream(clients[last.address], 1)
       IN  /\ last.packet.sequenceID < substream.outgoingSequenceID
           /\ ~MapHas(substream.ResendScheduler, last.packet.sequenceID)
           /\ substream.ResendScheduler # EmptyMap

\* The ids of a payload of two-byte values, starting after offset bytes
PayloadIDs(payload, offset) ==
    {payload[offset + 2 * k - 1] + 256 * payload[offset + 2 * k] :
        k \in 1..((Len(payload) - offset) \div 2)}

\* The entries of a scheduler that an aggregate acknowledgement of the base
\* and the ids leaves
Unacknowledged(scheduler, base, ids) ==
    [id \in {pending \in DOMAIN scheduler : pending > base /\ pending \notin ids}
        |-> scheduler[id]]

\* A step in which a worker handled an aggregate acknowledgement in the new
\* format with all its ids in the payload
HandlesNewAggregate ==
    /\ HandlesAcknowledgement(TRUE)
    /\ last'.packet.substreamID = 1
    /\ Len(last'.packet.payload) >= 4
    /\ Len(last'.packet.payload) = 4 + 2 * last'.packet.payload[2]

\* C23: after an aggregate acknowledgement in the new format, {substream s,
\* count, base B, ids A}, the scheduler of substream s holds no id of A and
\* no id up to B, still holds every id above B that is not in A, and the
\* other schedulers are as they were.
C23_NewAggregateAcknowledges ==
    [][HandlesNewAggregate =>
          Schedulers'
              = [Schedulers EXCEPT
                    ![last'.address][last'.packet.payload[1] + 1] =
                        Unacknowledged(@,
                            last'.packet.payload[3] + 256 * last'.packet.payload[4],
                            PayloadIDs(last'.packet.payload, 4))]]_vars

\* The scheduler of a substream of which both packets were sent holds one
\* of them, and the other substream was not emptied
KeptOneOfTwo(substreamID) ==
    /\ ~panicked
    /\ MapHas(clients, last.address)
    /\ HasSubstream(clients[last.address], substreamID)
    /\ LET substream == reliableSubstream(clients[last.address], substreamID)
       IN  /\ substream.outgoingSequenceID = FirstSequenceID + 2
           /\ Cardinality(DOMAIN substream.ResendScheduler) = 1

\* An aggregate acknowledgement in the new format took one of the two
\* packets of substream 1 off the scheduler
C23_OneOfTwoAcknowledged ==
    /\ Handled
    /\ HasFlag(last.packet, "MULTI_ACK")
    /\ last.packet.substreamID = 1
    /\ Len(last.packet.payload) >= 4
    /\ last.packet.payload[1] = 1
    /\ KeptOneOfTwo(1)
    /\ DOMAIN reliableSubstream(clients[last.address], 1).ResendScheduler
           \cap PayloadIDs(last.packet.payload, 4) = {}
    /\ \A id \in DOMAIN reliableSubstream(clients[last.address], 1).ResendScheduler :
           id > last.packet.payload[3] + 256 * last.packet.payload[4]

\* A step in which a worker handled an aggregate acknowledgement in the old
\* format
HandlesOldAggregate ==
    /\ HandlesAcknowledgement(TRUE)
    /\ last'.packet.substreamID # 1
    /\ Len(last'.packet.payload) % 2 = 0

\* C24: an aggregate acknowledgement whose substream id is not 1 is in the
\* old format: the base is the sequence id of the packet, the ids are the
\* payload read two bytes at a time, and it is applied to substream 0,
\* whatever the substream id; the other schedulers are as they were.
C24_OldAggregateAcknowledgesSubstreamZero ==
    [][HandlesOldAggregate =>
          Schedulers'
              = [Schedulers EXCEPT
                    ![last'.address][1] =
                        Unacknowledged(@, last'.packet.sequenceID,
                                       PayloadIDs(last'.packet.payload, 0))]]_vars

\* An aggregate acknowledgement in the old format with the substream id 2
\* took one of the two packets of substream 0 off the scheduler, and
\* substream 1 has a packet pending
C24_OneOfTwoAcknowledgedOnZero ==
    /\ Handled
    /\ HasFlag(last.packet, "MULTI_ACK")
    /\ last.packet.substreamID = 2
    /\ KeptOneOfTwo(0)
    /\ HasSubstream(clients[last.address], 1)
    /\ reliableSubstream(clients[last.address], 1).ResendScheduler # EmptyMap
    /\ DOMAIN reliableSubstream(clients[last.address], 0).ResendScheduler
           \cap PayloadIDs(last.packet.payload, 0) = {}
    /\ \A id \in DOMAIN reliableSubstream(clients[last.address], 0).ResendScheduler :
           id > last.packet.sequenceID

----------------------------------------------------------------------------
(* The heartbeat                                                           *)

\* The heartbeat timer of the peer of an address has run for longer than the
\* ping timeout: nothing came from the peer in that time
Overdue(address) ==
    /\ MapHas(clients, address)
    /\ idle[address] > PingTimeout

\* The peer of the address was taken out of the registry in the last step
\* and disconnect was emitted for it
Disconnected(address) ==
    /\ ~MapHas(clients, address)
    /\ last.address = address
    /\ \E i \in EmittedAt("disconnect") : oplog[i].address = address

\* A packet of the peer of the address was handled in the last step
ReceivedFrom(address) == Handled /\ last.address = address

\* C25: a peer from which no packet came for longer than the ping timeout
\* is in the end taken out of the registry, with a disconnect event, also
\* when the datagram that created it held no packet.
C25_QuietPeerRemoved ==
    \A address \in Addresses :
        Overdue(address) ~> (Disconnected(address) \/ ReceivedFrom(address))

\* The heartbeat of a peer expired: the peer is out of the registry and
\* disconnect was emitted
C25_HeartbeatExpired ==
    /\ last.op = "heartbeatExpire"
    /\ Disconnected(last.address)

----------------------------------------------------------------------------
(* Retransmission                                                          *)

\* The packet with the sequence id is in the scheduler of the substream of
\* the peer, among the peers given
PendingIn(peers_, address, substreamID, sequenceID) ==
    /\ MapHas(peers_, address)
    /\ HasSubstream(peers_[address], substreamID)
    /\ MapHas(reliableSubstream(peers_[address], substreamID).ResendScheduler,
              sequenceID)

Pending(address, substreamID, sequenceID) ==
    PendingIn(clients, address, substreamID, sequenceID)

\* The packet was written to the socket again in the last step
Resent(address, substreamID, sequenceID) ==
    /\ last.op = "resend"
    /\ last.address = address
    /\ last.packet.substreamID = substreamID
    /\ last.packet.sequenceID = sequenceID

\* A step of Send or sendPing: every reliable packet written that needs an
\* ACK is in its scheduler with the bytes written
ScheduledAsWritten ==
    (last'.op \in {"Send", "sendPing"} /\ ~panicked') =>
        \A i \in EffectAfter("sendRaw") :
            (HasFlag(oplog'[i].packet, "RELIABLE")
                 /\ HasFlag(oplog'[i].packet, "NEEDS_ACK")) =>
                /\ PendingIn(clients', last'.address,
                             oplog'[i].packet.substreamID,
                             oplog'[i].packet.sequenceID)
                /\ Bytes(Schedulers'[last'.address][
                             oplog'[i].packet.substreamID + 1][
                             oplog'[i].packet.sequenceID])
                       = oplog'[i].data

\* A scheduled packet stays as it is for as long as it is scheduled
ScheduledUnchanged ==
    \A address \in DOMAIN Schedulers \cap DOMAIN Schedulers' :
        \A i \in DOMAIN Schedulers[address] \cap DOMAIN Schedulers'[address] :
            \A sequenceID \in DOMAIN Schedulers[address][i]
                                  \cap DOMAIN Schedulers'[address][i] :
                Schedulers'[address][i][sequenceID]
                    = Schedulers[address][i][sequenceID]

\* A retransmission writes the bytes of a packet that is scheduled, once
ResentAsScheduled ==
    last'.op = "resend" =>
        /\ Pending(last'.address, last'.packet.substreamID,
                   last'.packet.sequenceID)
        /\ Cardinality(EffectAfter("sendRaw")) = 1
        /\ \A i \in EffectAfter("sendRaw") :
               oplog'[i].data
                   = Bytes(Schedulers[last'.address][
                               last'.packet.substreamID + 1][
                               last'.packet.sequenceID])

\* An acknowledged packet is out of its scheduler
AcknowledgedNotPending ==
    HandlesAcknowledgement(FALSE) =>
        ~PendingIn(clients', last'.address, last'.packet.substreamID,
                   last'.packet.sequenceID)

\* What is sent again is what was first sent, and nothing acknowledged is
\* scheduled
ResentVerbatim ==
    [][/\ ScheduledAsWritten
       /\ ScheduledUnchanged
       /\ ResentAsScheduled
       /\ AcknowledgedNotPending]_vars

\* C26: a reliable packet that needs an ACK and is not acknowledged is sent
\* again with the very bytes first sent for its sequence id, also when it is
\* a fragment of a longer Send; once its ACK was handled it is out of the
\* scheduler, and only scheduled packets are sent again.
C26_ResentVerbatimUntilAcknowledged ==
    /\ ResentVerbatim
    /\ \A address \in Addresses, substreamID \in SubstreamIDs,
          sequenceID \in OutgoingIDs :
           Pending(address, substreamID, sequenceID)
               ~> (\/ Resent(address, substreamID, sequenceID)
                   \/ ~Pending(address, substreamID, sequenceID))

\* The first fragment of a Send of more than one fragment was sent again
\* while the next one is scheduled too
C26_FragmentResent ==
    /\ last.op = "resend"
    /\ last.packet.fragmentID = 1
    /\ Pending(last.address, last.packet.substreamID, last.packet.sequenceID)
    /\ Pending(last.address, last.packet.substreamID, last.packet.sequenceID + 1)
    /\ \A i \in SentAt : oplog[i].data = Bytes(last.packet)

----------------------------------------------------------------------------
(* Events                                                                  *)

\* The emissions of the event in the last step
EmissionsOf(name) ==
    {i \in DOMAIN oplog' : oplog'[i].op = "emit" /\ oplog'[i].name = name}

\* The goroutines the last step started
NewTasks == (Len(tasks) + 1)..Len(tasks')

\* A step of the dispatcher starts, for every emission, one goroutine per
\* handler registered for the name, and touches no goroutine alive
EmitsRunEachHandlerOnce ==
    last'.op \notin {"handler", "on"} =>
        /\ Len(tasks') >= Len(tasks)
        /\ SubSeq(tasks', 1, Len(tasks)) = tasks
        /\ \A j \in NewTasks :
               /\ tasks'[j].pc = "started"
               /\ tasks'[j].handler \in DOMAIN eventHandlers
               /\ tasks'[j].name = eventHandlers[tasks'[j].handler].name
               /\ EmissionsOf(tasks'[j].name) # {}
        /\ \A handler \in DOMAIN eventHandlers :
               Cardinality({j \in NewTasks : tasks'[j].handler = handler})
                   = Cardinality(EmissionsOf(eventHandlers[handler].name))

\* The reply to a SYN or CONNECT is written in the step that emits the event,
\* whatever the goroutines of earlier emissions are doing
ReplyFollowsEmit ==
    \A i \in EmissionsOf("syn") \cup EmissionsOf("connect") :
        \E j \in DOMAIN oplog' :
            /\ j > i
            /\ oplog'[j].op = "sendRaw"
            /\ oplog'[j].packet = oplog'[i].packet

\* A step of a handler's goroutine
HandlerStep == last'.op = "handler" /\ tasks' # tasks

\* A handler that returns or blocks leaves the server as it is
QuietHandlerContained ==
    (HandlerStep /\ \A i \in DOMAIN tasks' : tasks'[i].pc # "panicked") =>
        UNCHANGED <<clients, panicked, hung>>

\* Whatever a handler does leaves the server as it is
HandlerContained == HandlerStep => UNCHANGED <<clients, panicked, hung>>

\* Handlers are started once per emission and, unless they panic, leave
\* the server alone
HandlersStartedApart ==
    [][EmitsRunEachHandlerOnce /\ ReplyFollowsEmit /\ QuietHandlerContained]_vars

\* C27: each emission starts every handler registered for the event once,
\* each in a goroutine of its own; the dispatcher does not wait for them, so
\* the reply is sent, and a handler that blocks forever or fails leaves the
\* server running and taking packets.
C27_HandlersRunApart ==
    [][EmitsRunEachHandlerOnce /\ ReplyFollowsEmit /\ HandlerContained]_vars

\* A SYN was answered while the handler of an earlier one is blocked
C27_AnsweredWhileBlocked ==
    /\ \E i \in DOMAIN tasks : tasks[i].pc = "blocked"
    /\ \E i \in DOMAIN tasks : tasks[i].pc = "started"
    /\ last.packet.type = "SYN"
    /\ SentAt # {}

----------------------------------------------------------------------------
(* Reading streams                                                         *)

\* The size in bytes of the value a fixed-size read reads
SizeOf(read) ==
    CASE read \in {"ReadUInt8", "ReadInt8", "ReadBool"} -> 1
      [] read \in {"ReadUInt16LE", "ReadUInt16BE", "ReadInt16LE", "ReadInt16BE"} -> 2
      [] read \in {"ReadUInt64LE", "ReadUInt64BE", "ReadInt64LE", "ReadInt64BE",
                   "ReadFloat64LE", "ReadFloat64BE"} -> 8
      [] OTHER -> 4

\* The bytes left to read before and after the step
LeftBefore == Len(reader.stream.data) - reader.stream.offset

\* The bytes of the data from the offset before the step on
DataAhead(from, to) ==
    SubSeq(reader.stream.data, reader.stream.offset + from,
           reader.stream.offset + to)

\* A step that makes the read
StreamReads(reads) == reader' # reader /\ reader'.read \in reads

\* A fixed-size read with too few bytes left fails and leaves the offset;
\* otherwise it gives the next bytes and moves the offset by its size
PrimitiveChecked ==
    StreamReads(PrimitiveReads) =>
        IF LeftBefore < SizeOf(reader'.read)
        THEN reader'.err /\ reader'.stream = reader.stream
        ELSE /\ ~reader'.err
             /\ reader'.stream.data = reader.stream.data
             /\ reader'.stream.offset
                    = reader.stream.offset + SizeOf(reader'.read)
             /\ reader'.value = DataAhead(1, SizeOf(reader'.read))

\* The length a length-prefixed read finds declared, when its field is there
Declared == LEValue(DataAhead(1, reader'.lengthSize))

\* A length-prefixed read whose length field is cut short, or declares more
\* than is left after it, fails; one that succeeds gives the declared bytes
\* of the data, none from beyond its end
LengthChecked ==
    StreamReads({"ReadBuffer", "ReadQBuffer", "ReadString"}) =>
        /\ reader'.stream.data = reader.stream.data
        /\ reader'.stream.offset <= Len(reader.stream.data)
        /\ IF LeftBefore < reader'.lengthSize
           THEN reader'.err /\ reader'.value = <<>>
           ELSE IF Declared > LeftBefore - reader'.lengthSize
           THEN reader'.err /\ reader'.value = <<>>
           ELSE /\ ~reader'.err
                /\ reader'.stream.offset
                       = reader.stream.offset + reader'.lengthSize + Declared
                /\ \E n \in 0..Declared :
                       reader'.value
                           = DataAhead(reader'.lengthSize + 1,
                                       reader'.lengthSize + n)

\* C28: every read of a StreamIn is bounds-checked: a fixed-size read with
\* fewer bytes left than its size returns an error and leaves the offset,
\* and otherwise advances the offset by its size; ReadBuffer, ReadQBuffer and
\* ReadString return an error when the declared length exceeds what is left
\* and never return bytes from beyond the end of the data.
C28_ReadsBoundsChecked == [][PrimitiveChecked /\ LengthChecked]_vars

\* A uint16 was refused with one byte left, in a stream that had given a
\* buffer before
C28_RefusedShortRead ==
    /\ reader.read = "ReadUInt16BE"
    /\ reader.err
    /\ Len(reader.stream.data) - reader.stream.offset = 1
    /\ reader.stream.offset > 4

\* A buffer was refused for a declared length beyond the data
C28_RefusedLongBuffer ==
    /\ reader.read \in {"ReadBuffer", "ReadQBuffer", "ReadString"}
    /\ reader.err
    /\ reader.stream.offset = reader.lengthSize
    /\ Len(reader.stream.data) > reader.lengthSize

----------------------------------------------------------------------------
(* The heartbeat and the packets received                                  *)

\* The effects of the last step before the heartbeat of the sender was reset
BeforeReset ==
    {i \in DOMAIN oplog' :
        \A j \in 1..i : ~(/\ oplog'[j].op = "resetHeartbeat"
                           /\ oplog'[j].address = last'.address)}

\* A packet was handed to processPacket: nothing is done before the
\* heartbeat of its sender is reset but to create the sender, and the timer
\* of a sender that stays registered starts anew
ResetFirst ==
    last'.op = "handleSocketMessage" =>
        /\ BeforeReset # DOMAIN oplog'
        /\ \A i \in BeforeReset : oplog'[i].op = "NewPRUDPClient"
        /\ MapHas(clients', last'.address) =>
               /\ idle'[last'.address] = 0
               /\ clients'[last'.address].heartbeat = "running"

\* A heartbeat expires only after the peer has delivered no packet for
\* longer than the ping timeout
ExpiresWhenQuiet ==
    last'.op = "heartbeatExpire" =>
        /\ MapHas(idle, last'.address)
        /\ idle[last'.address] > PingTimeout
        /\ ~MapHas(clients', last'.address)

\* C29: every packet handed to processPacket resets the heartbeat of its
\* sender before anything else is done, whatever its type and flags, so a
\* peer whose packets come at intervals shorter than the ping timeout is not
\* removed by the expiry of its heartbeat.
C29_EveryPacketResetsHeartbeat == [][ResetFirst /\ ExpiresWhenQuiet]_vars

\* An aggregate acknowledgement of a connected peer was handled and its
\* heartbeat timer is at zero
C29_AcknowledgementResetHeartbeat ==
    /\ last.op = "handleSocketMessage"
    /\ HasFlag(last.packet, "MULTI_ACK")
    /\ MapHas(clients, last.address)
    /\ HasSubstream(clients[last.address], 0)
    /\ idle[last.address] = 0
    /\ oplog[1].op = "resetHeartbeat"

----------------------------------------------------------------------------
(* Encryption of what is sent                                              *)

\* A packet whose payload sendPacket is to encrypt
Encryptable(packet) ==
    /\ packet.type = "DATA"
    /\ HasFlag(packet, "RELIABLE")
    /\ ~HasFlag(packet, "ACK")
    /\ ~HasFlag(packet, "MULTI_ACK")

\* A step that sent packets through sendPacket, none of them to be encrypted
SendsPlain ==
    /\ \/ last'.op \in {"Send", "sendPing"}
       \/ last'.op = "handleSocketMessage" /\ last'.packet.type # "CONNECT"
    /\ ~panicked'
    /\ EffectAfter("sendRaw") # {}
    /\ \A i \in EffectAfter("sendRaw") : ~Encryptable(oplog'[i].packet)

\* The payload the caller of sendPacket gave in the last step
GivenPayload ==
    IF last'.op = "Send" THEN last'.packet.payload ELSE <<>>

\* The outbound cipher of a substream is as it was
CipherKept(address, i) ==
    clients'[address].reliableSubstreams[i].cipher
        = clients[address].reliableSubstreams[i].cipher

\* C30: sendPacket changes the payload only of a DATA packet with RELIABLE
\* and without ACK and MULTI_ACK; of unreliable DATA, PING, DISCONNECT and of
\* every acknowledgement the payload written is the one the caller gave, and
\* the outbound cipher of no substream advances.
C30_OnlyReliableDataEncrypted ==
    [][(SendsPlain /\ Len(GivenPayload) < FragmentSize) =>
          /\ \A i \in EffectAfter("sendRaw") :
                 oplog'[i].packet.payload = GivenPayload
          /\ \A address \in DOMAIN clients \cap DOMAIN clients' :
                 \A i \in DOMAIN clients[address].reliableSubstreams
                          \cap DOMAIN clients'[address].reliableSubstreams :
                     CipherKept(address, i)]_vars

\* The layer above sent a reliable DATA acknowledgement with a payload to a
\* peer whose outbound cipher has encrypted before: the payload went out as
\* given
C30_AcknowledgementSentPlain ==
    /\ Sent
    /\ last.packet.type = "DATA"
    /\ HasFlag(last.packet, "RELIABLE")
    /\ HasFlag(last.packet, "ACK")
    /\ IsSecureServer
    /\ reliableSubstream(clients[last.address], 0).cipher.pos > 0
    /\ \A i \in SentAt : oplog[i].packet.payload = last.packet.payload

----------------------------------------------------------------------------
(* The substreams of a connected peer                                      *)

\* A step in which the CONNECT of a client was handled
HandlesConnect ==
    /\ last'.op = "handleSocketMessage"
    /\ last'.packet.type = "CONNECT"
    /\ ~HasFlag(last'.packet, "ACK")
    /\ ~HasFlag(last'.packet, "MULTI_ACK")
    /\ MapHas(clients', last'.address)

\* The largest substream id of the connection the CONNECT asks for
AskedSubstreams(packet) ==
    IF packet.version = 1 THEN packet.maximumSubstreamID ELSE 0

\* A step in which a connected peer's ACK or reliable DATA was handled: the
\* packet addresses a substream
AddressesSubstream ==
    /\ last'.op = "handleSocketMessage"
    /\ MapHas(clients, last'.address)
    /\ Len(clients[last'.address].reliableSubstreams) > 0
    /\ \/ HasFlag(last'.packet, "ACK") /\ ~HasFlag(last'.packet, "MULTI_ACK")
       \/ /\ last'.packet.type = "DATA"
          /\ HasFlag(last'.packet, "RELIABLE")
          /\ ~HasFlag(last'.packet, "ACK")
          /\ ~HasFlag(last'.packet, "MULTI_ACK")

\* The substreams are those of the CONNECT, and a packet for one of them
\* finds it
SubstreamsInRangeFound ==
    [][/\ HandlesConnect =>
              Len(clients'[last'.address].reliableSubstreams)
                  = AskedSubstreams(last'.packet) + 1
       /\ (/\ AddressesSubstream
           /\ HasSubstream(clients[last'.address], last'.packet.substreamID))
              => ~panicked']_vars

\* C31: after a CONNECT was handled the peer has the substreams 0 up to the
\* maximum substream id of the CONNECT on v1 and substream 0 alone on v0; a
\* later ACK or reliable DATA for a substream among them finds it, and one
\* for another substream is rejected: the worker goes on and the peer's
\* substreams are as they were.
C31_SubstreamsAsConnected ==
    [][/\ HandlesConnect =>
              Len(clients'[last'.address].reliableSubstreams)
                  = AskedSubstreams(last'.packet) + 1
       /\ AddressesSubstream =>
              /\ ~panicked'
              /\ ~HasSubstream(clients[last'.address], last'.packet.substreamID)
                     => /\ MapHas(clients', last'.address)
                        /\ clients'[last'.address].reliableSubstreams
                               = clients[last'.address].reliableSubstreams]_vars

\* ---------------------------------------------------------------------
\* Aggregate acknowledgements of any payload
\* ---------------------------------------------------------------------

\* A worker handles an aggregate acknowledgement of a connected peer
HandlesAggregate ==
    /\ last'.op = "handleSocketMessage"
    /\ HasFlag(last'.packet, "MULTI_ACK")
    /\ MapHas(clients, last'.address)
    /\ Len(clients[last'.address].reliableSubstreams) > 0

\* The payload is whole: the new format, or an old format of two-byte ids
WholePayload(packet) == packet.substreamID = 1 \/ Len(packet.payload) % 2 = 0

\* The new format ends whatever it declares, and the old format ends when
\* its payload is a number of ids
WholeAggregatesEnd ==
    [][(HandlesAggregate /\ WholePayload(last'.packet)) => ~hung']_vars

\* C32: handleMultiAcknowledgment terminates for every payload: the loop of
\* the old format ends for every payload length, one trailing byte included,
\* and the loop of the new format ends when the declared count exceeds the
\* ids present.
C32_MultiAcknowledgmentTerminates ==
    [][HandlesAggregate => ~hung']_vars

\* ---------------------------------------------------------------------
\* Messages in the hands of the handlers
\* ---------------------------------------------------------------------

\* The substream of a peer, among those of a registry
SubstreamIn(peers_, address, substreamID) ==
    peers_[address].reliableSubstreams[substreamID + 1]

\* The messages the sender completed with the packets a step released
ReleasedMessages(address, substreamID) ==
    SenderMessages(SubstreamIn(clients, address, substreamID).incomingSequenceID,
                   SubstreamIn(clients', address, substreamID).incomingSequenceID - 1,
                   <<>>)

\* A step in which a reliable DATA packet arrived that released packets
\* which complete more than one message
ReleasesMessages ==
    /\ last'.op = "handleSocketMessage"
    /\ last'.packet.type = "DATA"
    /\ HasFlag(last'.packet, "RELIABLE")
    /\ ~HasFlag(last'.packet, "ACK")
    /\ ~HasFlag(last'.packet, "MULTI_ACK")
    /\ ~panicked'
    /\ <<last'.address, last'.packet.substreamID + 1>> \in Substreams
    /\ MapHas(clients', last'.address)
    /\ SubstreamIn(clients, last'.address,
                   last'.packet.substreamID).fragmentedPayload = <<>>
    /\ Len(ReleasedMessages(last'.address, last'.packet.substreamID)) > 1

\* The reliable-data emissions of a step
ReliableEmissions ==
    SelectSeq(oplog', LAMBDA effect :
                          effect.op = "emit" /\ effect.name = "reliable-data")

\* One event per message the step completed, each emitted with its message
EmittedPerMessage ==
    ReleasesMessages =>
        [i \in DOMAIN ReliableEmissions |-> ReliableEmissions[i].packet.message]
            = ReleasedMessages(last'.address, last'.packet.substreamID)

\* A step in which the goroutine of a task ran its handler
Ran(i) ==
    /\ last'.op = "handler"
    /\ tasks[i].pc = "started"
    /\ \/ tasks' = WithoutTask(i)
       \/ tasks' = [tasks EXCEPT ![i].pc = "blocked"]
       \/ tasks' = [tasks EXCEPT ![i].pc = "panicked"]

\* A handler of reliable data finds on its packet the message of its event
ObservesOwnMessage ==
    \A i \in DOMAIN tasks :
        (Ran(i) /\ tasks[i].name = "reliable-data")
            => last'.packet.message = tasks[i].message

\* Every arrival that completes several messages emits one event for each
EventPerMessage == [][EmittedPerMessage]_vars

\* An arrival completed two messages and emitted two events
TwoMessagesEmitted ==
    /\ Handled
    /\ Cardinality(EmittedAt("reliable-data")) = 2
    /\ \E i, j \in EmittedAt("reliable-data") :
           oplog[i].packet.message # oplog[j].packet.message

\* C33: when one reliable packet releases buffered packets that complete
\* more than one message, one reliable-data event is emitted per message,
\* and the handlers of each event find that event's own message on the
\* packet: it is not replaced by a later message before or while they run.
C33_HandlersObserveOwnMessage ==
    [][EmittedPerMessage /\ ObservesOwnMessage]_vars

\* ---------------------------------------------------------------------
\* Packets behind a DISCONNECT
\* ---------------------------------------------------------------------

\* The positions, in the effects of a step, at which the entry of the
\* datagram's address was deleted from the registry
DeletedAt ==
    {i \in DOMAIN oplog' :
        oplog'[i].op = "Delete" /\ oplog'[i].address = last'.address}

\* A step in which a worker processed a DISCONNECT of the datagram it read
ProcessesDisconnect ==
    /\ last'.op = "handleSocketMessage"
    /\ DeletedAt # {}

\* The first of them
FirstDeleted == CHOOSE i \in DeletedAt : \A j \in DeletedAt : i <= j

\* Once the peer is removed, the step emits disconnect and does nothing
\* more: no heartbeat reset, no reply, no event, no substream touched
NothingBehindDisconnect ==
    ProcessesDisconnect =>
        \A i \in DOMAIN oplog' :
            i > FirstDeleted =>
                /\ i = FirstDeleted + 1
                /\ oplog'[i].op = "emit"
                /\ oplog'[i].name = "disconnect"

\* The registry holds no peer for the address after the step
RemovedForGood == ProcessesDisconnect => ~MapHas(clients', last'.address)

\* A datagram from an address without a peer is handled by a new peer
NewPeerForUnknown ==
    (last'.op = "handleSocketMessage" /\ ~MapHas(clients, last'.address))
        => /\ oplog' # <<>>
           /\ oplog'[1].op = "NewPRUDPClient"
           /\ oplog'[1].address = last'.address

\* The address is free after a DISCONNECT and the next datagram from it
\* makes a new peer
DisconnectedPeerReplaced == [][RemovedForGood /\ NewPeerForUnknown]_vars

\* C34: once a DISCONNECT has been processed for a peer, no later packet is
\* processed against the removed peer: the packets behind the DISCONNECT in
\* the same datagram do not restart its heartbeat, touch its substreams,
\* send replies or emit events, and a later datagram from the address is
\* handled by a new peer.
C34_NothingProcessedAfterDisconnect ==
    [][NothingBehindDisconnect /\ RemovedForGood /\ NewPeerForUnknown]_vars

\* ---------------------------------------------------------------------
\* Aggregate acknowledgements when the sequence ids have wrapped
\* ---------------------------------------------------------------------

\* The substream, the base and the listed ids of an aggregate
\* acknowledgement, in either format
AggregateSubstream(packet) ==
    IF packet.substreamID = 1 THEN packet.payload[1] ELSE 0

AggregateBase(packet) ==
    IF packet.substreamID = 1 THEN packet.payload[3] + 256 * packet.payload[4]
    ELSE packet.sequenceID

AggregateListed(packet) ==
    PayloadIDs(packet.payload, IF packet.substreamID = 1 THEN 4 ELSE 0)

\* How many packets ago the substream sent the id: 1 for the latest
Age(substream, sequenceID) ==
    U16(substream.outgoingSequenceID + 65536 - sequenceID)

\* The in-flight ids the substream sent at or before the base
SentUpTo(substream, base) ==
    {id \in DOMAIN substream.ResendScheduler :
        Age(substream, id) >= Age(substream, base)}

\* A step in which a worker handled a whole aggregate acknowledgement whose
\* base is in flight on the substream it names
AcknowledgesUpToBase ==
    /\ HandlesAcknowledgement(TRUE)
    /\ last'.packet.substreamID = 1 =>
           /\ Len(last'.packet.payload) >= 4
           /\ Len(last'.packet.payload) = 4 + 2 * last'.packet.payload[2]
    /\ MapHas(clients, last'.address)
    /\ MapHas(clients', last'.address)
    /\ HasSubstream(clients[last'.address], AggregateSubstream(last'.packet))
    /\ MapHas(SubstreamIn(clients, last'.address,
                          AggregateSubstream(last'.packet)).ResendScheduler,
              AggregateBase(last'.packet))

\* The ids the step left in the scheduler are those sent after the base and
\* not listed
KeptSentAfterBase ==
    DOMAIN SubstreamIn(clients', last'.address,
                       AggregateSubstream(last'.packet)).ResendScheduler
        = DOMAIN SubstreamIn(clients, last'.address,
                             AggregateSubstream(last'.packet)).ResendScheduler
              \ (SentUpTo(SubstreamIn(clients, last'.address,
                                      AggregateSubstream(last'.packet)),
                          AggregateBase(last'.packet))
                     \cup AggregateListed(last'.packet))

\* The ids in flight are all from one side of the wrap: the later sent is
\* the greater
Unwrapped(substream) ==
    \A id, other \in DOMAIN substream.ResendScheduler :
        id <= other <=> Age(substream, id) >= Age(substream, other)

\* While the ids in flight are from one side of the wrap, the base
\* acknowledges the ids sent at or before it
UnwrappedAcknowledgedInOrder ==
    [][(/\ AcknowledgesUpToBase
        /\ Unwrapped(SubstreamIn(clients, last'.address,
                                 AggregateSubstream(last'.packet))))
           => KeptSentAfterBase]_vars

\* An aggregate acknowledgement was handled while ids from both sides of
\* the wrap were in flight
AcknowledgedAcrossWrap ==
    /\ Handled
    /\ HasFlag(last.packet, "MULTI_ACK")
    /\ MapHas(clients, last.address)
    /\ HasSubstream(clients[last.address], 0)
    /\ reliableSubstream(clients[last.address], 0).outgoingSequenceID
           \in 1..MaxOutgoing + 1
    /\ reliableSubstream(clients[last.address], 0).cipher.pos > LastSequenceID

\* C35: an aggregate acknowledgement with base B acknowledges exactly the
\* in-flight packets sent at or before B in the wrapping order of the 16-bit
\* sequence ids, and the listed ids: after the counter wrapped, an id sent
\* before B that is greater than B is acknowledged, and an id sent after B
\* that is smaller than B is not.
C35_AcknowledgedInWrappingOrder ==
    [][AcknowledgesUpToBase => KeptSentAfterBase]_vars

\* An aggregate acknowledgement of the only packet in flight, the last
\* before the wrap, was handled
AcknowledgedBeforeWrap ==
    /\ Handled
    /\ HasFlag(last.packet, "MULTI_ACK")
    /\ AggregateBase(last.packet) = LastSequenceID
    /\ MapHas(clients, last.address)
    /\ HasSubstream(clients[last.address], 0)
    /\ reliableSubstream(clients[last.address], 0).outgoingSequenceID = 0
    /\ reliableSubstream(clients[last.address], 0).ResendScheduler = EmptyMap

\* ---------------------------------------------------------------------
\* Callers of Send at the same time
\* ---------------------------------------------------------------------

\* A step in which caller c sent a fragment
SendsFragment(c) ==
    /\ senders[c].pc = "loop"
    /\ senders'[c].i = senders[c].i + 1
    /\ ~panicked'

\* The fragment caller c sent gets the sequence id after the one of the
\* fragment it sent before
NextFragmentFollows(c) ==
    (SendsFragment(c) /\ senders[c].i >= 1)
        => senders'[c].packet.sequenceID = U16(senders[c].packet.sequenceID + 1)

\* The sequence id of the fragment caller c sent was held by no packet of
\* the substream
FreshSequenceID(c) ==
    SendsFragment(c) =>
        \A address \in DOMAIN clients :
            address = senders[c].packet.sender =>
                ~MapHas(SubstreamIn(clients, address, 0).ResendScheduler,
                        senders'[c].packet.sequenceID)

\* No two packets of a substream are given the same sequence id
SequenceIDsGivenOnce == [][\A c \in Senders : FreshSequenceID(c)]_vars

\* Both callers are in the loop of Send for the same peer
BothSending ==
    /\ \A c \in Senders : senders[c].pc = "loop"
    /\ \A c, d \in Senders : senders[c].packet.sender = senders[d].packet.sender

\* C36: two calls of Send that run at the same time for the same peer and
\* substream do not interleave: the fragments of each message get
\* consecutive sequence ids in fragment order, and no two packets get the
\* same sequence id.
C36_SendsDoNotInterleave ==
    [][\A c \in Senders : NextFragmentFollows(c) /\ FreshSequenceID(c)]_vars

\* ---------------------------------------------------------------------
\* What an acknowledgement leaves alone
\* ---------------------------------------------------------------------

\* A step in which a worker processed a packet with ACK or MULTI_ACK set
ProcessesFlagged ==
    /\ last'.op = "handleSocketMessage"
    /\ HasFlag(last'.packet, "ACK") \/ HasFlag(last'.packet, "MULTI_ACK")

\* The substreams whose scheduler the step changed
Rescheduled(before, after) ==
    {i \in DOMAIN before.reliableSubstreams :
        after.reliableSubstreams[i].ResendScheduler
            # before.reliableSubstreams[i].ResendScheduler}

\* The peer after the step is the peer before it, but for its heartbeat and
\* for entries taken out of one scheduler
OnlyAcknowledged(before, after) ==
    /\ \A field \in DOMAIN before \ {"heartbeat", "reliableSubstreams"} :
           after[field] = before[field]
    /\ DOMAIN after.reliableSubstreams = DOMAIN before.reliableSubstreams
    /\ \A i \in DOMAIN before.reliableSubstreams :
           /\ [after.reliableSubstreams[i] EXCEPT !.ResendScheduler = EmptyMap]
                  = [before.reliableSubstreams[i] EXCEPT !.ResendScheduler = EmptyMap]
           /\ DOMAIN after.reliableSubstreams[i].ResendScheduler
                  \subseteq DOMAIN before.reliableSubstreams[i].ResendScheduler
           /\ \A id \in DOMAIN after.reliableSubstreams[i].ResendScheduler :
                  after.reliableSubstreams[i].ResendScheduler[id]
                      = before.reliableSubstreams[i].ResendScheduler[id]
    /\ Cardinality(Rescheduled(before, after)) <= 1

\* Nothing is written, nothing is emitted, the other peers are as they
\* were and the peer of the packet changed in its heartbeat and one
\* scheduler only
AcknowledgementFrame ==
    /\ \A i \in DOMAIN oplog' : oplog'[i].op \in {"NewPRUDPClient", "resetHeartbeat"}
    /\ DOMAIN clients' = DOMAIN clients \cup {last'.address}
    /\ \A address \in DOMAIN clients \ {last'.address} :
           clients'[address] = clients[address]
    /\ OnlyAcknowledged(PeerOf(last'.address), clients'[last'.address])

\* A CONNECT with ACK set took a packet in flight out of the scheduler of a
\* connected peer
ConnectAcknowledged ==
    /\ Handled
    /\ last.packet.type = "CONNECT"
    /\ HasFlag(last.packet, "ACK")
    /\ ~panicked
    /\ MapHas(clients, last.address)
    /\ HasSubstream(clients[last.address], last.packet.substreamID)
    /\ reliableSubstream(clients[last.address],
                         last.packet.substreamID).outgoingSequenceID
           > last.packet.sequenceID
    /\ ~MapHas(reliableSubstream(clients[last.address],
                                 last.packet.substreamID).ResendScheduler,
               last.packet.sequenceID)

\* C37: processing a received packet with ACK or MULTI_ACK set, of any
\* type, writes nothing to the socket, emits no event and leaves the
\* registry and the peer's handshake state, signatures, session key and
\* sequence counters as they were: its only effects are the heartbeat reset
\* and the removal of entries from one retransmission scheduler.
C37_AcknowledgementOnlyAcknowledges ==
    [][ProcessesFlagged => AcknowledgementFrame]_vars

----------------------------------------------------------------------------
\* A QBuffer written and read back

Extracted == reader.read = "ExtractFrom"

\* the QBuffer read is the one written, and the reading stopped where the
\* writing of it did
RoundTrips ==
    /\ ~reader.err
    /\ reader.equal
    /\ reader.offset = reader.written

\* the length is one a uint16 holds
FitsLength(length) == U16(length) = length

\* C38, as stated: every byte string, of 65536 bytes or more too, written
\* with QBuffer.WriteTo and read back with QBuffer.ExtractFrom gives a QBuffer
\* that Equals it, and the reading consumes exactly the bytes written.
C38_QBufferRoundTrips == Extracted => RoundTrips

\* C38, amended: every byte string of fewer than 65536 bytes written with
\* QBuffer.WriteTo and read back with QBuffer.ExtractFrom gives a QBuffer
\* that Equals it, and the reading consumes exactly the bytes written.
C38_QBufferRoundTripsWithinLength ==
    Extracted /\ FitsLength(reader.length) => RoundTrips

\* the longest QBuffer the length field holds came back, with more after it
LongestQBufferRoundTripped ==
    /\ Extracted
    /\ reader.length = 65535
    /\ reader.rest # <<>>
    /\ RoundTrips

====
